---- MODULE Spec2Model ----
(***************************************************************************)
(* RBAC request pipeline of the REST API template:                         *)
(*   AuthenticationMiddleware.handle -> AuthorizationMiddleware            *)
(*   .requirePermission -> controller, with ErrorHandlerMiddleware turning *)
(*   every forwarded error into one Problem Details response.              *)
(*                                                                         *)
(* Strings that the code splits (the Authorization header, the permission  *)
(* codes) are sequences of atoms, a separator being an atom of its own, so *)
(* that String.prototype.split is modelled by what it does.  Every await   *)
(* on the persistence layer is a step of its own: the tables may change    *)
(* between two lookups of the same request.                                *)
(***************************************************************************)
EXTENDS Integers, Sequences, FiniteSets, TLC

VARIABLES
    rq,           \* rq[q]: the state of request q (headers, req.userId, position, response)
    users,        \* table "users": id -> row (exists, deleted = deletedAt # null, isActive, roleId)
    roles,        \* table "roles" with "_RolePermissions": id -> (exists, isSystem, permissionIds)
    permissions,  \* ids of the rows of table "permissions" that exist
    writes,       \* number of writes other clients have made to the tables
    isDevelopment \* config.isDevelopment, given to ErrorHandlerMiddleware at construction

vars == <<rq, users, roles, permissions, writes, isDevelopment>>

(***************************************************************************)
(* Bounds of the model.                                                    *)
(***************************************************************************)
MaxCodes == 2      \* longest list of required permission codes of a route
MaxWrites == 2     \* writes by other clients during the life of the request
MaxShapeCodes == 2 \* longest list of codes when every shape of code is tried
MaxTotal == 12      \* items in the table that a page is taken from
MaxOffset == 11     \* items skipped

Undefined == "<undefined>"

(***************************************************************************)
(* Strings as sequences of atoms, and String.prototype.split.              *)
(***************************************************************************)
RECURSIVE Split(_, _)
Split(s, sep) ==
    IF \E i \in 1..Len(s) : s[i] = sep
    THEN LET i == CHOOSE k \in 1..Len(s) :
                      /\ s[k] = sep
                      /\ \A j \in 1..(k - 1) : s[j] # sep
         IN  <<SubSeq(s, 1, i - 1)>> \o Split(SubSeq(s, i + 1, Len(s)), sep)
    ELSE <<s>>

\* The JavaScript string that a sequence of atoms spells.
RECURSIVE Concat(_)
Concat(s) == IF s = <<>> THEN "" ELSE s[1] \o Concat(Tail(s))

\* The i-th element of an array destructuring: undefined past the end.
At(parts, i) == IF i <= Len(parts) THEN Concat(parts[i]) ELSE Undefined

\* JavaScript falsiness of a string | undefined value.
Falsy(v) == v = Undefined \/ v = ""

(***************************************************************************)
(* Errors.  Every error is a record of one shape; a field that a class     *)
(* does not have is empty.                                                 *)
(***************************************************************************)
NoContext ==
    [userId |-> "", aggregateType |-> "", aggregateId |-> "", operation |-> "",
     cause |-> "", permissionCode |-> ""]

\* ApplicationError, httpStatus 401.
UnauthorizedHttpStatus == 401
\* ApplicationError, httpStatus 403.
ForbiddenHttpStatus == 403
\* A missing entity answered like a denial.
NotFoundAsDenied == ForbiddenHttpStatus
\* DomainError, httpStatus 404.
NotFoundHttpStatus == 404
\* DomainError documents "ValidationError: 400 (Bad Request)".
ValidationHttpStatus == 400
\* InfrastructureError.httpStatus, inherited by DatabaseError.
InfrastructureHttpStatus == 500

BaseFields(cls, errorCode, httpStatus, message, context) ==
    [cls |-> cls, errorCode |-> errorCode, httpStatus |-> httpStatus,
     message |-> message, reason |-> "", entityType |-> "", entityId |-> "",
     action |-> "", resource |-> "", field |-> "", context |-> context]

UnauthorizedError(reason, context) ==
    [BaseFields("UnauthorizedError", "UNAUTHORIZED", UnauthorizedHttpStatus,
                "Authentication failed: " \o reason, context)
       EXCEPT !.reason = reason]

ForbiddenError(action, resource, reason, context) ==
    [BaseFields("ForbiddenError", "FORBIDDEN", ForbiddenHttpStatus,
                "Access denied: cannot " \o action \o " " \o resource
                    \o ". Reason: " \o reason, context)
       EXCEPT !.action = action, !.resource = resource, !.reason = reason]

NotFoundError(entityType, entityId, context) ==
    [BaseFields("NotFoundError", "NOT_FOUND", NotFoundHttpStatus,
                entityType \o " with id '" \o entityId \o "' not found", context)
       EXCEPT !.entityType = entityType, !.entityId = entityId]

ValidationError(field, reason, context) ==
    [BaseFields("ValidationError", "VALIDATION_ERROR", ValidationHttpStatus,
                "Validation failed for '" \o field \o "': " \o reason, context)
       EXCEPT !.field = field, !.reason = reason]

DatabaseError(message, operation) ==
    BaseFields("DatabaseError", "DATABASE_ERROR", InfrastructureHttpStatus, message,
               [NoContext EXCEPT !.operation = operation, !.cause = "PrismaClientError"])

NoError == BaseFields("", "", 0, "", NoContext)

\* Result<TSuccess, TError>
Ok(value) == [isSuccess |-> TRUE, value |-> value, error |-> NoError]
Fail(error) == [isSuccess |-> FALSE, value |-> Undefined, error |-> error]

(***************************************************************************)
(* Reference data.                                                         *)
(***************************************************************************)
UserIds == {"u1"}
RoleIds == {"ADMIN", "USER", "GUEST", "EDITOR"}
PermissionIds == {"pAll", "pUsersRead", "pUsersAny", "pAnyDelete"}

\* The rows of table "permissions": immutable once created.  "*:*" and
\* "users:read" are seeded; the two single-field wildcards are rows an
\* operator adds to the seed list.
PERMISSIONS(p) ==
    CASE p = "pAll"       -> [id |-> p, resource |-> "*",     action |-> "*"]
      [] p = "pUsersRead" -> [id |-> p, resource |-> "users", action |-> "read"]
      [] p = "pUsersAny"  -> [id |-> p, resource |-> "users", action |-> "*"]
      [] p = "pAnyDelete" -> [id |-> p, resource |-> "*",     action |-> "delete"]

\* The seeded system roles, and one custom role created by an administrator.
SYSTEM_ROLES ==
    [r \in RoleIds |->
        CASE r = "ADMIN"  -> [exists |-> TRUE, isSystem |-> TRUE,  permissionIds |-> {"pAll"}]
          [] r = "USER"   -> [exists |-> TRUE, isSystem |-> TRUE,  permissionIds |-> {"pUsersRead"}]
          [] r = "GUEST"  -> [exists |-> TRUE, isSystem |-> TRUE,  permissionIds |-> {}]
          [] r = "EDITOR" -> [exists |-> TRUE, isSystem |-> FALSE,
                              permissionIds |-> {"pUsersAny", "pAnyDelete"}]]

NoUserRow == [exists |-> FALSE, deleted |-> FALSE, isActive |-> FALSE, roleId |-> "GUEST"]

\* The rows a user can have after registration, update and soft delete.
UserRows ==
    {NoUserRow} \cup
    [exists : {TRUE}, deleted : BOOLEAN, isActive : BOOLEAN, roleId : RoleIds]

(***************************************************************************)
(* Token service.  jsonwebtoken's verify, as a table over the token        *)
(* strings in circulation: it throws, or returns the decoded payload.      *)
(***************************************************************************)
jwtVerify(token) ==
    CASE token = "tokU1"      -> [threw |-> "", isString |-> FALSE, userId |-> "u1"]
      [] token = "tokU2"      -> [threw |-> "", isString |-> FALSE, userId |-> "u2"]
      [] token = "tokBadUid"  -> [threw |-> "", isString |-> FALSE, userId |-> "not-a-uuid"]
      [] token = "tokNoUid"   -> [threw |-> "", isString |-> FALSE, userId |-> Undefined]
      [] token = "tokStr"     -> [threw |-> "", isString |-> TRUE,  userId |-> Undefined]
      [] token = "tokExpired" -> [threw |-> "TokenExpiredError", isString |-> FALSE,
                                  userId |-> Undefined]
      [] OTHER                -> [threw |-> "JsonWebTokenError", isString |-> FALSE,
                                  userId |-> Undefined]

\* JwtService.verify
JwtServiceVerify(token) ==
    LET decoded == jwtVerify(token) IN
    IF decoded.threw # ""
    THEN Fail(UnauthorizedError("Invalid or expired token",
                                [NoContext EXCEPT !.cause = decoded.threw]))
    ELSE IF decoded.isString
    THEN Fail(UnauthorizedError("Invalid token payload", NoContext))
    ELSE IF Falsy(decoded.userId)
    THEN Fail(UnauthorizedError("Invalid token payload", NoContext))
    ELSE Ok(decoded.userId)

\* UserId.fromString: the identity must have the identity (UUID) format.
UserIdFromString(s) ==
    IF s \in {"u1", "u2", "u9"} THEN Ok(s)
    ELSE Fail(ValidationError("userId", "Invalid UUID format", NoContext))

(***************************************************************************)
(* Persistence reads, evaluated on the tables as they are at the step.     *)
(* failed: the storage call threw (connection lost, timeout).              *)
(***************************************************************************)
NoUser == [found |-> FALSE, id |-> "", isActive |-> FALSE, deleted |-> FALSE, roleId |-> ""]
NoRole == [found |-> FALSE, id |-> "", permissionIds |-> {}]

\* findById without the deletedAt filter.
UserRepositoryFindById_IncludingDeleted(table, id, failed) ==
    IF failed THEN Fail(DatabaseError("Failed to find user by ID", "findById"))
    ELSE IF id \in DOMAIN table /\ table[id].exists
    THEN Ok([found |-> TRUE, id |-> id, isActive |-> table[id].isActive,
             deleted |-> FALSE, roleId |-> table[id].roleId])
    ELSE Ok(NoUser)

\* UserRepositoryImpl.findById: where { id, deletedAt: null }
UserRepositoryFindById(table, id, failed) ==
    IF failed THEN Fail(DatabaseError("Failed to find user by ID", "findById"))
    ELSE IF id \in DOMAIN table /\ table[id].exists /\ ~table[id].deleted
    THEN Ok([found |-> TRUE, id |-> id, isActive |-> table[id].isActive,
             deleted |-> FALSE, roleId |-> table[id].roleId])
    ELSE Ok(NoUser)

\* RoleRepository.findById -> Role | absent
RoleRepositoryFindById(table, id, failed) ==
    IF failed THEN Fail(DatabaseError("Failed to find role by ID", "findById"))
    ELSE IF id \in DOMAIN table /\ table[id].exists
    THEN Ok([found |-> TRUE, id |-> id, permissionIds |-> table[id].permissionIds])
    ELSE Ok(NoRole)

\* findByIds answering with one row only.
PermissionRepositoryFindByIds_FirstOnly(existing, ids, failed) ==
    IF failed THEN Fail(DatabaseError("Failed to find permissions by IDs", "findByIds"))
    ELSE IF ids \cap existing = {} THEN Ok({})
    ELSE Ok({PERMISSIONS(CHOOSE p \in ids \cap existing : TRUE)})

\* PermissionRepository.findByIds: missing ids are omitted, not an error.
PermissionRepositoryFindByIds(existing, ids, failed) ==
    IF failed THEN Fail(DatabaseError("Failed to find permissions by IDs", "findByIds"))
    ELSE Ok({PERMISSIONS(p) : p \in ids \cap existing})

\* User.canAuthenticate
canAuthenticate(user) == user.found /\ ~user.deleted /\ user.isActive

\* Permission.grants
grants(permission, resource, action) ==
    /\ (permission.resource = resource \/ permission.resource = "*")
    /\ (permission.action = action \/ permission.action = "*")

(***************************************************************************)
(* Use cases.                                                              *)
(***************************************************************************)
\* execute without the canAuthenticate test.
GetActiveUserByIdExecute_AnyFoundUser(userResult) ==
    IF ~userResult.isSuccess THEN Fail(userResult.error)
    ELSE IF ~userResult.value.found
    THEN Fail(UnauthorizedError("User inactive or not found", NoContext))
    ELSE Ok(userResult.value)

\* GetActiveUserByIdUseCase.execute, after the user lookup returned.
GetActiveUserByIdExecute(userResult) ==
    IF ~userResult.isSuccess THEN Fail(userResult.error)
    ELSE IF ~userResult.value.found \/ ~canAuthenticate(userResult.value)
    THEN Fail(UnauthorizedError("User inactive or not found", NoContext))
    ELSE Ok(userResult.value)

\* execute without the isActive test.
ExecuteAfterUser_NoActiveTest(userResult, userId) ==
    IF ~userResult.isSuccess
    THEN [done |-> TRUE, result |-> Fail(userResult.error), roleId |-> ""]
    ELSE IF ~userResult.value.found
    THEN [done |-> TRUE, roleId |-> "",
          result |-> Fail(NotFoundError("User", userId,
                          [NoContext EXCEPT !.aggregateType = "User",
                                            !.aggregateId = userId]))]
    ELSE [done |-> FALSE, result |-> Ok(FALSE), roleId |-> userResult.value.roleId]

\* CheckPermissionUseCase.execute, from the user lookup's return to the role
\* lookup: done = TRUE when execute returns here with result.
ExecuteAfterUser(userResult, userId) ==
    IF ~userResult.isSuccess
    THEN [done |-> TRUE, result |-> Fail(userResult.error), roleId |-> ""]
    ELSE IF ~userResult.value.found
    THEN [done |-> TRUE, roleId |-> "",
          result |-> Fail(NotFoundError("User", userId,
                          [NoContext EXCEPT !.aggregateType = "User",
                                            !.aggregateId = userId]))]
    ELSE IF ~userResult.value.isActive
    THEN [done |-> TRUE, result |-> Ok(FALSE), roleId |-> ""]
    ELSE [done |-> FALSE, result |-> Ok(FALSE), roleId |-> userResult.value.roleId]

\* execute without the test for an empty permission set.
ExecuteAfterRole_NoEmptyTest(roleResult, roleId) ==
    IF ~roleResult.isSuccess
    THEN [done |-> TRUE, result |-> Fail(roleResult.error), permissionIds |-> {}]
    ELSE IF ~roleResult.value.found
    THEN [done |-> TRUE, permissionIds |-> {},
          result |-> Fail(NotFoundError("Role", roleId,
                          [NoContext EXCEPT !.aggregateType = "Role",
                                            !.aggregateId = roleId]))]
    ELSE [done |-> FALSE, result |-> Ok(FALSE),
          permissionIds |-> roleResult.value.permissionIds]

\* execute taking an absent role for a role without permissions.
ExecuteAfterRole_AbsentRoleDenied(roleResult, roleId) ==
    IF ~roleResult.isSuccess
    THEN [done |-> TRUE, result |-> Fail(roleResult.error), permissionIds |-> {}]
    ELSE IF ~roleResult.value.found
            \/ Cardinality(roleResult.value.permissionIds) = 0
    THEN [done |-> TRUE, result |-> Ok(FALSE), permissionIds |-> {}]
    ELSE [done |-> FALSE, result |-> Ok(FALSE),
          permissionIds |-> roleResult.value.permissionIds]

\* CheckPermissionUseCase.execute, from the role lookup's return to the
\* batch permission lookup.
ExecuteAfterRole(roleResult, roleId) ==
    IF ~roleResult.isSuccess
    THEN [done |-> TRUE, result |-> Fail(roleResult.error), permissionIds |-> {}]
    ELSE IF ~roleResult.value.found
    THEN [done |-> TRUE, permissionIds |-> {},
          result |-> Fail(NotFoundError("Role", roleId,
                          [NoContext EXCEPT !.aggregateType = "Role",
                                            !.aggregateId = roleId]))]
    ELSE IF Cardinality(roleResult.value.permissionIds) = 0
    THEN [done |-> TRUE, result |-> Ok(FALSE), permissionIds |-> {}]
    ELSE [done |-> FALSE, result |-> Ok(FALSE),
          permissionIds |-> roleResult.value.permissionIds]

\* every in place of some.
EveryGrants(perms, resource, action) ==
    \A permission \in perms : grants(permission, resource, action)

\* permissions.some((permission) => permission.grants(resource, action))
SomeGrants(perms, resource, action) ==
    \E permission \in perms : grants(permission, resource, action)

\* execute taking a failed batch lookup for an empty list of permissions.
ExecuteAfterPermissions_FailureAsNone(permissionsResult, resource, action) ==
    IF ~permissionsResult.isSuccess THEN Ok(FALSE)
    ELSE Ok(SomeGrants(permissionsResult.value, resource, action))

\* CheckPermissionUseCase.execute, after the batch permission lookup returned.
ExecuteAfterPermissions(permissionsResult, resource, action) ==
    IF ~permissionsResult.isSuccess THEN Fail(permissionsResult.error)
    ELSE Ok(SomeGrants(permissionsResult.value, resource, action))

(***************************************************************************)
(* Requests.                                                               *)
(***************************************************************************)
Requests == {"q1"}

\* Authorization header values: absent, or a string of atoms.
NoHeader == [present |-> FALSE, text |-> <<>>]
Header(text) == [present |-> TRUE, text |-> text]

HeaderCases ==
    {NoHeader,
     Header(<<>>),
     Header(<<"Bearer", " ", "tokU1">>),
     Header(<<"Bearer", " ", "tokExpired">>),
     Header(<<"Bearer", " ", "tokBadSig">>),
     Header(<<"Bearer", " ", "tokStr">>),
     Header(<<"Bearer", " ", "tokNoUid">>),
     Header(<<"Bearer", " ", "tokBadUid">>),
     Header(<<"Token", " ", "tokU1">>),
     Header(<<"bearer", " ", "tokU1">>),
     Header(<<"tokU1">>),
     Header(<<"Bearer">>),
     Header(<<"Bearer", " ">>),
     Header(<<"Bearer", " ", " ", "tokU1">>),
     Header(<<"Bearer", " ", "tokU1", " ", "extra">>)}

\* Required permission codes a route may declare, well-formed or not.
PermissionCodes ==
    {<<"users", ":", "read">>,
     <<"users", ":", "delete">>,
     <<"users">>}

\* The lists a route declares: up to MaxCodes codes, none repeated.
CodeLists ==
    {c \in UNION {[1..n -> PermissionCodes] : n \in 0..MaxCodes} :
        \A i, j \in 1..Len(c) : c[i] = c[j] => i = j}

\* The extension members of a Problem Details body; "" is an absent member.
NoExtensions ==
    [reason |-> "", field |-> "", entityType |-> "", entityId |-> "",
     action |-> "", resource |-> "",
     aggregateType |-> "", aggregateId |-> "", operation |-> "", userId |-> "",
     metadata |-> [cause |-> "", permissionCode |-> ""], stack |-> ""]

NoResponse ==
    [sent |-> FALSE, status |-> 0, contentType |-> "", type |-> "", title |-> "",
     detail |-> "", extensions |-> NoExtensions]

NewRequest(header, required) ==
    [header |-> header, required |-> required, pc |-> "start",
     userId |-> Undefined, idx |-> 0, lookupId |-> "", roleId |-> "",
     permissionIds |-> {}, resource |-> "", action |-> "",
     err |-> NoError, errStage |-> "", calls |-> <<>>, lookupFailed |-> FALSE,
     outcomes |-> <<>>,
     nextCalls |-> [authentication |-> 0, authorization |-> 0, handler |-> 0,
                   errorHandler |-> 0], handled |-> 0, responses |-> 0, response |-> NoResponse]

Call(op, code) == [op |-> op, code |-> code]

\* The lookup that the request awaited has returned, failed or not.
Returned(r, failed) == [r EXCEPT !.lookupFailed = failed]

\* next(error)
Forward(r, error, stage) ==
    [r EXCEPT !.pc = "error", !.err = error, !.errStage = stage,
              !.nextCalls[stage] = @ + 1]

\* The outcome kind of a failed Result<boolean, Error> or of a denial.
OutcomeOf(result) ==
    IF result.isSuccess THEN (IF result.value THEN "Granted" ELSE "Denied")
    ELSE result.error.cls

(***************************************************************************)
(* AuthorizationMiddleware.requirePermission                               *)
(***************************************************************************)
\* One field shared by the requests in flight in place of req.userId.
ReqUserId_Shared(r) ==
    LET attached == {rq[p].userId : p \in DOMAIN rq} \ {Undefined} IN
    IF attached = {} THEN r.userId
    ELSE CHOOSE u \in attached : TRUE

\* req.userId, as the authorization middleware reads it.
ReqUserId(r) == r.userId

\* const [resource, action] = permissionCode.split(':'); if (!resource || !action)
ParsePermissionCode(permissionCode) ==
    LET parts == Split(permissionCode, ":")
        resource == At(parts, 1)
        action == At(parts, 2)
    IN  [valid |-> ~(Falsy(resource) \/ Falsy(action)),
         resource |-> resource, action |-> action]

\* The loop refusing a request of a route that requires nothing.
LoopFrom_NothingRequiredForbidden(r, i) ==
    IF Len(r.required) = 0
    THEN Forward(r, ForbiddenError("", "", "Missing required permission",
                        [NoContext EXCEPT !.userId = r.userId,
                                          !.operation = "authorize"]),
                 "authorization")
    ELSE IF i > Len(r.required)
    THEN [r EXCEPT !.pc = "handler", !.nextCalls["authorization"] = @ + 1]
    ELSE LET parsed == ParsePermissionCode(r.required[i]) IN
         IF ~parsed.valid
         THEN Forward([r EXCEPT !.idx = i,
                                !.outcomes = Append(@, "ValidationError")],
                      ValidationError("permission", "Invalid permission format",
                          [NoContext EXCEPT
                              !.permissionCode = Concat(r.required[i])]),
                      "authorization")
         ELSE [r EXCEPT !.pc = "chk_user", !.idx = i,
                        !.lookupId = ReqUserId(r),
                        !.resource = parsed.resource, !.action = parsed.action,
                        !.calls = Append(@, Call("user.findById", i))]

\* The for loop from its i-th iteration up to the next await, or to its end.
LoopFrom(r, i) ==
    IF i > Len(r.required)
    THEN [r EXCEPT !.pc = "handler", !.nextCalls["authorization"] = @ + 1]
    ELSE LET parsed == ParsePermissionCode(r.required[i]) IN
         IF ~parsed.valid
         THEN Forward([r EXCEPT !.idx = i,
                                !.outcomes = Append(@, "ValidationError")],
                      ValidationError("permission", "Invalid permission format",
                          [NoContext EXCEPT
                              !.permissionCode = Concat(r.required[i])]),
                      "authorization")
         ELSE [r EXCEPT !.pc = "chk_user", !.idx = i,
                        !.lookupId = ReqUserId(r),
                        !.resource = parsed.resource, !.action = parsed.action,
                        !.calls = Append(@, Call("user.findById", i))]

\* The middleware without its tests of req.userId.
RequirePermissionEnter_NoIdentityTest(r) == LoopFrom(r, 1)

\* The middleware returned by requirePermission, up to its first await.
RequirePermissionEnter(r) ==
    IF Falsy(ReqUserId(r))
    THEN Forward(r, UnauthorizedError("Token missing", NoContext), "authorization")
    ELSE IF ~UserIdFromString(ReqUserId(r)).isSuccess
    THEN Forward(r, UnauthorizedError("Invalid user context", NoContext), "authorization")
    ELSE LoopFrom(r, 1)

\* A denial that does not end the loop.
AfterCheck_IgnoreDenial(r, hasPermissionResult) ==
    LET r1 == [r EXCEPT !.outcomes = Append(@, OutcomeOf(hasPermissionResult))] IN
    IF ~hasPermissionResult.isSuccess
    THEN Forward(r1, hasPermissionResult.error, "authorization")
    ELSE LoopFrom(r1, r.idx + 1)

\* A failed check that does not end the loop.
AfterCheck_SkipFailure(r, hasPermissionResult) ==
    LET r1 == [r EXCEPT !.outcomes = Append(@, OutcomeOf(hasPermissionResult))] IN
    IF hasPermissionResult.isSuccess /\ ~hasPermissionResult.value
    THEN Forward(r1, ForbiddenError(r.action, r.resource, "Missing required permission",
                        [NoContext EXCEPT !.userId = r.userId,
                                          !.operation = "authorize"]),
                 "authorization")
    ELSE LoopFrom(r1, r.idx + 1)

\* A check that remembers having granted: a second grant is refused.
AfterCheck_GrantOnce(r, hasPermissionResult) ==
    LET again == /\ hasPermissionResult.isSuccess
                 /\ hasPermissionResult.value
                 /\ \E i \in 1..Len(r.outcomes) : r.outcomes[i] = "Granted"
        result == IF again THEN Ok(FALSE) ELSE hasPermissionResult
        r1 == [r EXCEPT !.outcomes = Append(@, OutcomeOf(result))]
    IN  IF ~result.isSuccess
        THEN Forward(r1, result.error, "authorization")
        ELSE IF ~result.value
        THEN Forward(r1, ForbiddenError(r.action, r.resource, "Missing required permission",
                            [NoContext EXCEPT !.userId = r.userId,
                                              !.operation = "authorize"]),
                     "authorization")
        ELSE LoopFrom(r1, r.idx + 1)

\* next(error) without return: the loop goes on after forwarding.
AfterCheck_NoReturn(r, hasPermissionResult) ==
    LET r1 == [r EXCEPT !.outcomes = Append(@, OutcomeOf(hasPermissionResult))] IN
    IF ~hasPermissionResult.isSuccess
    THEN LoopFrom(Forward(r1, hasPermissionResult.error, "authorization"), r.idx + 1)
    ELSE IF ~hasPermissionResult.value
    THEN LoopFrom(Forward(r1, ForbiddenError(r.action, r.resource,
                                  "Missing required permission",
                                  [NoContext EXCEPT !.userId = r.userId,
                                                    !.operation = "authorize"]),
                          "authorization"),
                  r.idx + 1)
    ELSE LoopFrom(r1, r.idx + 1)

\* The loop body after checkPermissionUseCase.execute returned.
AfterCheck(r, hasPermissionResult) ==
    LET r1 == [r EXCEPT !.outcomes = Append(@, OutcomeOf(hasPermissionResult))] IN
    IF ~hasPermissionResult.isSuccess
    THEN Forward(r1, hasPermissionResult.error, "authorization")
    ELSE IF ~hasPermissionResult.value
    THEN Forward(r1, ForbiddenError(r.action, r.resource, "Missing required permission",
                        [NoContext EXCEPT !.userId = r.userId,
                                          !.operation = "authorize"]),
                 "authorization")
    ELSE LoopFrom(r1, r.idx + 1)

(***************************************************************************)
(* AuthenticationMiddleware.handle                                         *)
(***************************************************************************)
\* From the header to the token handed to the token service.
HeaderToken(header) ==
    IF ~header.present \/ header.text = <<>>
    THEN Fail(UnauthorizedError("Token missing", NoContext))
    ELSE LET parts == Split(header.text, " ")
             scheme == At(parts, 1)
             token == At(parts, 2)
         IN  IF scheme # "Bearer" \/ Falsy(token)
             THEN Fail(UnauthorizedError("Invalid authorization header", NoContext))
             ELSE Ok(token)

\* handle with the identity parse left out.
AuthenticationBegin_NoIdentityParse(r) ==
    LET tokenOf == HeaderToken(r.header) IN
    IF ~tokenOf.isSuccess THEN Forward(r, tokenOf.error, "authentication")
    ELSE LET tokenResult == JwtServiceVerify(tokenOf.value)
             r1 == [r EXCEPT !.calls = Append(@, Call("jwt.verify", 0))]
         IN  IF ~tokenResult.isSuccess
             THEN Forward(r1, tokenResult.error, "authentication")
             ELSE [r1 EXCEPT !.pc = "auth_findById",
                             !.lookupId = tokenResult.value,
                             !.calls = Append(@, Call("user.findById", 0))]

\* handle attaching the token's identity before the user was loaded.
AuthenticationBegin_AttachEarly(r) ==
    LET tokenOf == HeaderToken(r.header) IN
    IF ~tokenOf.isSuccess THEN Forward(r, tokenOf.error, "authentication")
    ELSE LET tokenResult == JwtServiceVerify(tokenOf.value)
             r1 == [r EXCEPT !.calls = Append(@, Call("jwt.verify", 0))]
         IN  IF ~tokenResult.isSuccess
             THEN Forward(r1, tokenResult.error, "authentication")
             ELSE IF ~UserIdFromString(tokenResult.value).isSuccess
             THEN Forward(r1, UnauthorizedError("Invalid token payload", NoContext),
                          "authentication")
             ELSE [r1 EXCEPT !.pc = "auth_findById",
                             !.userId = tokenResult.value,
                             !.lookupId = tokenResult.value,
                             !.calls = Append(@, Call("user.findById", 0))]

\* handle, up to its await on the user lookup.
AuthenticationBegin(r) ==
    LET tokenOf == HeaderToken(r.header) IN
    IF ~tokenOf.isSuccess THEN Forward(r, tokenOf.error, "authentication")
    ELSE LET tokenResult == JwtServiceVerify(tokenOf.value)
             r1 == [r EXCEPT !.calls = Append(@, Call("jwt.verify", 0))]
         IN  IF ~tokenResult.isSuccess
             THEN Forward(r1, tokenResult.error, "authentication")
             ELSE IF ~UserIdFromString(tokenResult.value).isSuccess
             THEN Forward(r1, UnauthorizedError("Invalid token payload", NoContext),
                          "authentication")
             ELSE [r1 EXCEPT !.pc = "auth_findById",
                             !.lookupId = tokenResult.value,
                             !.calls = Append(@, Call("user.findById", 0))]

\* handle, after the user lookup returned: on success it sets req.userId and
\* calls next(), which runs the next middleware of the route.
AuthenticationAfterUser(r, userResult) ==
    LET active == GetActiveUserByIdExecute(userResult) IN
    IF ~active.isSuccess THEN Forward(r, active.error, "authentication")
    ELSE RequirePermissionEnter([r EXCEPT !.userId = active.value.id,
                                          !.nextCalls["authentication"] = @ + 1])

(***************************************************************************)
(* ErrorMapper and ErrorHandlerMiddleware                                  *)
(***************************************************************************)
DEFAULT_BASE_URL == "https://api.example.com"

\* errorCode.toLowerCase().replace(/_/g, '-')
ProblemTypeOf(errorCode) ==
    CASE errorCode = "UNAUTHORIZED"     -> "unauthorized"
      [] errorCode = "FORBIDDEN"        -> "forbidden"
      [] errorCode = "NOT_FOUND"        -> "not-found"
      [] errorCode = "VALIDATION_ERROR" -> "validation-error"
      [] errorCode = "DATABASE_ERROR"   -> "database-error"
      [] OTHER                          -> "internal-server-error"

\* ErrorMapper.getTitle: ERROR_CODE in Title Case.
GetTitle(errorCode) ==
    CASE errorCode = "UNAUTHORIZED"     -> "Unauthorized"
      [] errorCode = "FORBIDDEN"        -> "Forbidden"
      [] errorCode = "NOT_FOUND"        -> "Not Found"
      [] errorCode = "VALIDATION_ERROR" -> "Validation Error"
      [] errorCode = "DATABASE_ERROR"   -> "Database Error"
      [] OTHER                          -> errorCode

\* error instanceof BaseError
IsBaseError(error) ==
    error.cls \in {"UnauthorizedError", "ForbiddenError", "NotFoundError",
                   "ValidationError", "DatabaseError"}

\* An error that is no BaseError: new Error(message).
UnexpectedError(message) == BaseFields("Error", "", 0, message, NoContext)

\* getErrorExtensions adding the context in every configuration.
GetErrorExtensions_AlwaysContext(error, includeContext) ==
    [NoExtensions EXCEPT
        !.field = IF error.cls = "ValidationError" THEN error.field ELSE "",
        !.reason = IF error.cls \in {"ValidationError", "UnauthorizedError",
                                     "ForbiddenError"}
                   THEN error.reason ELSE "",
        !.entityType = IF error.cls = "NotFoundError" THEN error.entityType ELSE "",
        !.entityId = IF error.cls = "NotFoundError" THEN error.entityId ELSE "",
        !.action = IF error.cls = "ForbiddenError" THEN error.action ELSE "",
        !.resource = IF error.cls = "ForbiddenError" THEN error.resource ELSE "",
        !.aggregateType = error.context.aggregateType,
        !.aggregateId = error.context.aggregateId,
        !.operation = error.context.operation,
        !.userId = error.context.userId,
        !.metadata = [cause |-> error.context.cause,
                      permissionCode |-> error.context.permissionCode]]

\* ErrorMapper.getErrorExtensions
GetErrorExtensions(error, includeContext) ==
    LET own ==
            [NoExtensions EXCEPT
                !.field = IF error.cls = "ValidationError" THEN error.field ELSE "",
                !.reason = IF error.cls \in {"ValidationError", "UnauthorizedError",
                                             "ForbiddenError"}
                           THEN error.reason ELSE "",
                !.entityType = IF error.cls = "NotFoundError" THEN error.entityType ELSE "",
                !.entityId = IF error.cls = "NotFoundError" THEN error.entityId ELSE "",
                !.action = IF error.cls = "ForbiddenError" THEN error.action ELSE "",
                !.resource = IF error.cls = "ForbiddenError" THEN error.resource ELSE ""]
    IN  IF includeContext
        THEN [own EXCEPT !.aggregateType = error.context.aggregateType,
                         !.aggregateId = error.context.aggregateId,
                         !.operation = error.context.operation,
                         !.userId = error.context.userId,
                         !.metadata = [cause |-> error.context.cause,
                                       permissionCode |-> error.context.permissionCode]]
        ELSE own

\* ProblemDetailsBuilder.build: throws when a required member is missing.
Build(type, title, status, detail, extensions) ==
    [threw |-> Falsy(type) \/ Falsy(title) \/ Falsy(detail),
     type |-> type, title |-> title, status |-> status, detail |-> detail,
     extensions |-> extensions]

\* ErrorMapper.mapBaseError
MapBaseError(error, options) ==
    Build(DEFAULT_BASE_URL \o "/problems/" \o ProblemTypeOf(error.errorCode),
          GetTitle(error.errorCode), error.httpStatus, error.message,
          GetErrorExtensions(error, options.includeContext))

\* mapUnexpectedError with the error's message as the detail in every mode.
MapUnexpectedError_MessageAsDetail(error, options) ==
    Build(DEFAULT_BASE_URL \o "/problems/internal-server-error",
          "Internal Server Error", InfrastructureHttpStatus,
          error.message,
          [NoExtensions EXCEPT !.stack = IF options.includeContext
                                         THEN "Error: " \o error.message ELSE ""])

\* ErrorMapper.mapUnexpectedError
MapUnexpectedError(error, options) ==
    Build(DEFAULT_BASE_URL \o "/problems/internal-server-error",
          "Internal Server Error", InfrastructureHttpStatus,
          IF options.includeContext THEN error.message
          ELSE "An unexpected error occurred. Please try again later.",
          [NoExtensions EXCEPT !.stack = IF options.includeContext
                                         THEN "Error: " \o error.message ELSE ""])

\* ErrorMapper.toProblemDetails
ErrorMapperToProblemDetails(error, options) ==
    IF IsBaseError(error) THEN MapBaseError(error, options)
    ELSE MapUnexpectedError(error, options)

\* ErrorHandlerMiddleware.handle.  When toProblemDetails throws, handle throws
\* and Express answers with its own 500 page.
ErrorHandlerHandle(r, isDev) ==
    IF r.response.sent
    THEN [r EXCEPT !.pc = "done", !.nextCalls["errorHandler"] = @ + 1]
    ELSE LET problemDetails ==
                 ErrorMapperToProblemDetails(r.err, [includeContext |-> isDev])
         IN  IF problemDetails.threw
             THEN [r EXCEPT !.pc = "done", !.responses = @ + 1,
                            !.response = [NoResponse EXCEPT
                                !.sent = TRUE,
                                !.status = InfrastructureHttpStatus,
                                !.contentType = "text/html; charset=utf-8"]]
             ELSE [r EXCEPT !.pc = "done", !.responses = @ + 1,
                            !.response = [sent |-> TRUE,
                                          status |-> problemDetails.status,
                                          contentType |-> "application/problem+json",
                                          type |-> problemDetails.type,
                                          title |-> problemDetails.title,
                                          detail |-> problemDetails.detail,
                                          extensions |-> problemDetails.extensions]]

\* The controller method of the route, given the result of its use case:
\* next(result.error), or res.status(200).json(result.value).
ControllerHandle(r, result) ==
    LET r1 == [r EXCEPT !.handled = @ + 1] IN
    IF ~result.isSuccess THEN Forward(r1, result.error, "handler")
    ELSE [r1 EXCEPT !.pc = "done", !.responses = @ + 1,
                    !.response = [NoResponse EXCEPT
                                     !.sent = TRUE, !.status = 200,
                                     !.contentType = "application/json"]]

(***************************************************************************)
(* Initial state: the seeded roles and permissions, the user of the token  *)
(* in any state registration, update and soft delete can leave it in, one  *)
(* request to a protected route, and the production configuration (the     *)
(* development configuration is explored by SpecErrors).                   *)
(***************************************************************************)
Init ==
    /\ rq \in [Requests -> {NewRequest(h, c) : h \in HeaderCases, c \in CodeLists}]
    /\ users \in [UserIds -> UserRows]
    /\ roles = SYSTEM_ROLES
    /\ permissions = PermissionIds
    /\ writes = 0
    /\ isDevelopment = FALSE

(***************************************************************************)
(* Steps of a request.                                                     *)
(***************************************************************************)
Authenticate(q) ==
    /\ rq[q].pc = "start"
    /\ rq' = [rq EXCEPT ![q] = AuthenticationBegin(rq[q])]
    /\ UNCHANGED <<users, roles, permissions, writes, isDevelopment>>

AuthenticateUserLoaded(q) ==
    /\ rq[q].pc = "auth_findById"
    /\ \E failed \in BOOLEAN :
          rq' = [rq EXCEPT ![q] = AuthenticationAfterUser(Returned(rq[q], failed),
                     UserRepositoryFindById(users, rq[q].lookupId, failed))]
    /\ UNCHANGED <<users, roles, permissions, writes, isDevelopment>>

CheckUserLoaded(q) ==
    /\ rq[q].pc = "chk_user"
    /\ \E failed \in BOOLEAN :
          LET r == Returned(rq[q], failed)
              step == ExecuteAfterUser(
                          UserRepositoryFindById(users, r.lookupId, failed), r.lookupId)
          IN  rq' = [rq EXCEPT ![q] =
                        IF step.done THEN AfterCheck(r, step.result)
                        ELSE [r EXCEPT !.pc = "chk_role", !.roleId = step.roleId,
                                       !.calls = Append(@, Call("role.findById", r.idx))]]
    /\ UNCHANGED <<users, roles, permissions, writes, isDevelopment>>

CheckRoleLoaded(q) ==
    /\ rq[q].pc = "chk_role"
    /\ \E failed \in BOOLEAN :
          LET r == Returned(rq[q], failed)
              step == ExecuteAfterRole(
                          RoleRepositoryFindById(roles, r.roleId, failed), r.roleId)
          IN  rq' = [rq EXCEPT ![q] =
                        IF step.done THEN AfterCheck(r, step.result)
                        ELSE [r EXCEPT !.pc = "chk_perms",
                                       !.permissionIds = step.permissionIds,
                                       !.calls = Append(@,
                                           Call("permission.findByIds", r.idx))]]
    /\ UNCHANGED <<users, roles, permissions, writes, isDevelopment>>

CheckPermissionsLoaded(q) ==
    /\ rq[q].pc = "chk_perms"
    /\ \E failed \in BOOLEAN :
          LET r == Returned(rq[q], failed) IN
          rq' = [rq EXCEPT ![q] =
                    AfterCheck(r, ExecuteAfterPermissions(
                        PermissionRepositoryFindByIds(permissions, r.permissionIds, failed),
                        r.resource, r.action))]
    /\ UNCHANGED <<users, roles, permissions, writes, isDevelopment>>

Controller(q) ==
    /\ rq[q].pc = "handler"
    /\ \E result \in {Ok("page"), Fail(DatabaseError("Failed to list permissions",
                                                       "findAll"))} :
          rq' = [rq EXCEPT ![q] = ControllerHandle(rq[q], result)]
    /\ UNCHANGED <<users, roles, permissions, writes, isDevelopment>>

ErrorHandler(q) ==
    /\ rq[q].pc = "error"
    /\ rq' = [rq EXCEPT ![q] = ErrorHandlerHandle(rq[q], isDevelopment)]
    /\ UNCHANGED <<users, roles, permissions, writes, isDevelopment>>

(***************************************************************************)
(* Writes by other clients.  The tables are read only at the lookups, so a *)
(* write is observable only while some request awaits one.                 *)
(***************************************************************************)
Awaiting == \E q \in Requests : rq[q].pc \in {"auth_findById", "chk_user", "chk_role", "chk_perms"}

CanWrite == writes < MaxWrites /\ Awaiting

\* UserRepositoryImpl.update: isActive and roleId of the row with this id,
\* soft-deleted or not; the role must exist (users_role_id_fkey).
UpdateUser(u, isActive, roleId) ==
    /\ CanWrite
    /\ users[u].exists
    /\ roles[roleId].exists
    /\ <<isActive, roleId>> # <<users[u].isActive, users[u].roleId>>
    /\ users' = [users EXCEPT ![u].isActive = isActive, ![u].roleId = roleId]
    /\ writes' = writes + 1
    /\ UNCHANGED <<rq, roles, permissions, isDevelopment>>

\* UserRepositoryImpl.delete: data: { deletedAt: new Date() }
DeleteUser(u) ==
    /\ CanWrite
    /\ users[u].exists
    /\ ~users[u].deleted
    /\ users' = [users EXCEPT ![u].deleted = TRUE]
    /\ writes' = writes + 1
    /\ UNCHANGED <<rq, roles, permissions, isDevelopment>>

\* A custom role is deleted; ON DELETE RESTRICT keeps a role that a user
\* row (soft-deleted or not) references.
DeleteRole(r) ==
    /\ CanWrite
    /\ roles[r].exists
    /\ ~roles[r].isSystem
    /\ \A u \in UserIds : ~(users[u].exists /\ users[u].roleId = r)
    /\ roles' = [roles EXCEPT ![r].exists = FALSE, ![r].permissionIds = {}]
    /\ writes' = writes + 1
    /\ UNCHANGED <<rq, users, permissions, isDevelopment>>

\* A permission row is deleted; ON DELETE CASCADE removes it from every role.
DeletePermission(p) ==
    /\ CanWrite
    /\ p \in permissions
    /\ permissions' = permissions \ {p}
    /\ roles' = [r \in RoleIds |-> [roles[r] EXCEPT !.permissionIds = @ \ {p}]]
    /\ writes' = writes + 1
    /\ UNCHANGED <<rq, users, isDevelopment>>

Next ==
    \/ \E q \in Requests : Authenticate(q)
    \/ \E q \in Requests : AuthenticateUserLoaded(q)
    \/ \E q \in Requests : CheckUserLoaded(q)
    \/ \E q \in Requests : CheckRoleLoaded(q)
    \/ \E q \in Requests : CheckPermissionsLoaded(q)
    \/ \E q \in Requests : Controller(q)
    \/ \E q \in Requests : ErrorHandler(q)
    \/ \E u \in UserIds, isActive \in BOOLEAN, roleId \in RoleIds : UpdateUser(u, isActive, roleId)
    \/ \E u \in UserIds : DeleteUser(u)
    \/ \E r \in RoleIds : DeleteRole(r)
    \/ \E p \in PermissionIds : DeletePermission(p)

Spec == Init /\ [][Next]_vars

(***************************************************************************)
(* The pipeline over every shape of required permission code: one request  *)
(* of an active user bearing a valid token, the tables left unchanged.     *)
(***************************************************************************)
CodeShapes ==
    {<<"users", ":", "read">>,
     <<"users", ":", "delete">>,
     <<"users">>,
     <<>>,
     <<":">>,
     <<":", "read">>,
     <<"users", ":">>,
     <<"users", ":", ":", "read">>,
     <<"users", ":", "read", ":", "extra">>}

ShapeLists == UNION {[1..n -> CodeShapes] : n \in 1..MaxShapeCodes}

InitShapes ==
    /\ rq \in [Requests -> {NewRequest(Header(<<"Bearer", " ", "tokU1">>), c) :
                                c \in ShapeLists}]
    /\ users \in [UserIds -> [exists : {TRUE}, deleted : {FALSE}, isActive : {TRUE},
                              roleId : RoleIds]]
    /\ roles = SYSTEM_ROLES
    /\ permissions = PermissionIds
    /\ writes = MaxWrites
    /\ isDevelopment = FALSE

NextShapes ==
    \/ \E q \in Requests : Authenticate(q)
    \/ \E q \in Requests : AuthenticateUserLoaded(q)
    \/ \E q \in Requests : CheckUserLoaded(q)
    \/ \E q \in Requests : CheckRoleLoaded(q)
    \/ \E q \in Requests : CheckPermissionsLoaded(q)
    \/ \E q \in Requests : Controller(q)
    \/ \E q \in Requests : ErrorHandler(q)

SpecShapes == InitShapes /\ [][NextShapes]_vars

\* A step of request q.  The event loop resumes a request whenever the
\* collaborator it awaits has returned.
RequestStep(q) ==
    \/ Authenticate(q)
    \/ AuthenticateUserLoaded(q)
    \/ CheckUserLoaded(q)
    \/ CheckRoleLoaded(q)
    \/ CheckPermissionsLoaded(q)
    \/ Controller(q)
    \/ ErrorHandler(q)

\* The pipeline under the event loop's scheduling, no further write to the
\* tables.
InitFair ==
    /\ rq \in [Requests -> {NewRequest(h, c) : h \in HeaderCases, c \in CodeLists}]
    /\ users \in [UserIds -> UserRows]
    /\ roles = SYSTEM_ROLES
    /\ permissions = PermissionIds
    /\ writes = MaxWrites
    /\ isDevelopment = FALSE

FairSpec ==
    /\ InitFair
    /\ [][NextShapes]_vars
    /\ \A q \in Requests : WF_vars(RequestStep(q))

(***************************************************************************)
(* The pipeline under both configurations of the error handler: a request  *)
(* to a route that declares at most one code.                              *)
(***************************************************************************)
InitErrors ==
    /\ rq \in [Requests -> {NewRequest(h, c) :
                                h \in HeaderCases,
                                c \in {<<>>} \cup {<<code>> : code \in PermissionCodes}}]
    /\ users \in [UserIds -> UserRows]
    /\ roles = SYSTEM_ROLES
    /\ permissions = PermissionIds
    /\ writes = 0
    /\ isDevelopment \in BOOLEAN

SpecErrors == InitErrors /\ [][Next]_vars

(***************************************************************************)
(* Two requests in flight at once, of two users, their steps interleaved   *)
(* in any order; the tables are left unchanged.                            *)
(***************************************************************************)
ConcurrentRequests == {"q1", "q2"}

ConcurrentUsers ==
    {[u1 |-> [exists |-> TRUE, deleted |-> FALSE, isActive |-> TRUE, roleId |-> a],
      u2 |-> [exists |-> TRUE, deleted |-> FALSE, isActive |-> TRUE, roleId |-> b]] :
        a \in {"ADMIN", "USER"}, b \in {"GUEST", "EDITOR"}}

InitConcurrent ==
    /\ rq \in [ConcurrentRequests ->
                 {NewRequest(Header(<<"Bearer", " ", t>>), c) :
                     t \in {"tokU1", "tokU2"},
                     c \in {<<>>} \cup {<<code>> : code \in PermissionCodes}}]
    /\ users \in ConcurrentUsers
    /\ roles = SYSTEM_ROLES
    /\ permissions = PermissionIds
    /\ writes = MaxWrites
    /\ isDevelopment = FALSE

NextConcurrent ==
    \/ \E q \in ConcurrentRequests : Authenticate(q)
    \/ \E q \in ConcurrentRequests : AuthenticateUserLoaded(q)
    \/ \E q \in ConcurrentRequests : CheckUserLoaded(q)
    \/ \E q \in ConcurrentRequests : CheckRoleLoaded(q)
    \/ \E q \in ConcurrentRequests : CheckPermissionsLoaded(q)
    \/ \E q \in ConcurrentRequests : Controller(q)
    \/ \E q \in ConcurrentRequests : ErrorHandler(q)

SpecConcurrent == InitConcurrent /\ [][NextConcurrent]_vars

(***************************************************************************)
(* UserRepositoryImpl over the users table.  A row keeps its id for ever    *)
(* (primary key; delete is a soft delete), emails are unique over all rows *)
(* (users_email_key), and every read filters deletedAt: null.              *)
(***************************************************************************)
RepoIds == {"u1", "u2"}
Emails == {"a@x", "b@x"}
CreatedAts == {1, 2}
Limits == {1, 2}
Offsets == {0, 1}

NoRepoRow ==
    [exists |-> FALSE, deleted |-> FALSE, isActive |-> FALSE, roleId |-> "GUEST",
     email |-> "", createdAt |-> 0]

\* The user entities a caller can pass to save and update.
UserEntities ==
    [id : RepoIds, email : Emails, isActive : BOOLEAN, roleId : RoleIds,
     createdAt : CreatedAts]

\* where { ..., deletedAt: null }
NotDeleted(table) == {i \in DOMAIN table : table[i].exists /\ ~table[i].deleted}

\* UserRepositoryImpl.findByEmail: findFirst where { email, deletedAt: null }
UserRepositoryFindByEmail(table, email) ==
    LET found == {i \in NotDeleted(table) : table[i].email = email} IN
    IF found = {} THEN Ok(NoUser)
    ELSE LET i == CHOOSE j \in found : TRUE IN
         Ok([found |-> TRUE, id |-> i, isActive |-> table[i].isActive,
             deleted |-> FALSE, roleId |-> table[i].roleId])

\* orderBy: { createdAt: 'desc' }: the orders the database can return, rows of
\* one createdAt in any order.
CreatedAtDesc(table, ids) ==
    {order \in [1..Cardinality(ids) -> ids] :
        /\ \A a, b \in DOMAIN order : a # b => order[a] # order[b]
        /\ \A a, b \in DOMAIN order :
              a < b => table[order[a]].createdAt >= table[order[b]].createdAt}

\* take: limit, skip: offset
TakeSkip(order, limit, offset) ==
    LET last == IF offset + limit < Len(order) THEN offset + limit ELSE Len(order) IN
    SubSeq(order, offset + 1, last)

\* UserRepositoryImpl.findAll: the ids of the users of every page the
\* database can return.
UserRepositoryFindAll(table, limit, offset) ==
    {TakeSkip(order, limit, offset) : order \in CreatedAtDesc(table, NotDeleted(table))}

\* UserRepositoryImpl.existsByEmail: count where { email, deletedAt: null } > 0
UserRepositoryExistsByEmail(table, email) ==
    Ok(Cardinality({i \in NotDeleted(table) : table[i].email = email}) > 0)

\* UserRepositoryImpl.existsById: count where { id, deletedAt: null } > 0
UserRepositoryExistsById(table, id) ==
    Ok(Cardinality({i \in NotDeleted(table) : i = id}) > 0)

\* UserRepositoryImpl.count: count where { deletedAt: null }
UserRepositoryCount(table) == Ok(Cardinality(NotDeleted(table)))

\* Another row, soft-deleted or not, holds the email (unique index).
EmailTaken(table, id, email) ==
    \E i \in DOMAIN table : i # id /\ table[i].exists /\ table[i].email = email

\* UserRepositoryImpl.save: create; the primary key and the unique index
\* reject a second row of the id or of the email.
UserRepositorySave(table, user) ==
    IF table[user.id].exists \/ EmailTaken(table, user.id, user.email)
    THEN [table |-> table, result |-> Fail(DatabaseError("Failed to save user", "save"))]
    ELSE [table |-> [table EXCEPT ![user.id] =
                        [exists |-> TRUE, deleted |-> FALSE, isActive |-> user.isActive,
                         roleId |-> user.roleId, email |-> user.email,
                         createdAt |-> user.createdAt]],
          result |-> Ok(Undefined)]

\* update with deletedAt among the written columns.
UserRepositoryUpdate_Restoring(table, user) ==
    IF ~table[user.id].exists \/ EmailTaken(table, user.id, user.email)
    THEN [table |-> table, result |-> Fail(DatabaseError("Failed to update user", "update"))]
    ELSE [table |-> [table EXCEPT ![user.id].email = user.email,
                                  ![user.id].isActive = user.isActive,
                                  ![user.id].roleId = user.roleId,
                                  ![user.id].deleted = FALSE],
          result |-> Ok(Undefined)]

\* UserRepositoryImpl.update: update where { id }; deletedAt and createdAt
\* are not among the written columns, and the row may be a soft-deleted one.
UserRepositoryUpdate(table, user) ==
    IF ~table[user.id].exists \/ EmailTaken(table, user.id, user.email)
    THEN [table |-> table, result |-> Fail(DatabaseError("Failed to update user", "update"))]
    ELSE [table |-> [table EXCEPT ![user.id].email = user.email,
                                  ![user.id].isActive = user.isActive,
                                  ![user.id].roleId = user.roleId],
          result |-> Ok(Undefined)]

\* UserRepositoryImpl.delete: update where { id } data { deletedAt: new Date() };
\* P2025 (no row of the id) is the answer false.
UserRepositoryDelete(table, id) ==
    IF ~table[id].exists
    THEN [table |-> table, result |-> Ok(FALSE)]
    ELSE [table |-> [table EXCEPT ![id].deleted = TRUE], result |-> Ok(TRUE)]

InitRepository ==
    /\ rq = [q \in Requests |-> NewRequest(NoHeader, <<>>)]
    /\ users = [i \in RepoIds |-> NoRepoRow]
    /\ roles = SYSTEM_ROLES
    /\ permissions = PermissionIds
    /\ writes = 0
    /\ isDevelopment = FALSE

RepositorySave(user) ==
    /\ users' = UserRepositorySave(users, user).table
    /\ UNCHANGED <<rq, roles, permissions, writes, isDevelopment>>

RepositoryUpdate(user) ==
    /\ users' = UserRepositoryUpdate(users, user).table
    /\ UNCHANGED <<rq, roles, permissions, writes, isDevelopment>>

RepositoryDelete(id) ==
    /\ users' = UserRepositoryDelete(users, id).table
    /\ UNCHANGED <<rq, roles, permissions, writes, isDevelopment>>

NextRepository ==
    \/ \E user \in UserEntities : RepositorySave(user)
    \/ \E user \in UserEntities : RepositoryUpdate(user)
    \/ \E id \in RepoIds : RepositoryDelete(id)

SpecRepository == InitRepository /\ [][NextRepository]_vars

(***************************************************************************)
(* ErrorHandlerMiddleware.handle on its own: an error of any class reached  *)
(* the error handler of a request, with the response headers sent or not,  *)
(* under either configuration.                                             *)
(***************************************************************************)
HandlerErrors ==
    {UnauthorizedError(reason, NoContext) :
        reason \in {"Token missing", "Invalid authorization header",
                    "Invalid or expired token", "User inactive or not found"}}
    \cup {ForbiddenError(action, "users", "Missing required permission",
                         [NoContext EXCEPT !.userId = "u1", !.operation = "authorize"]) :
            action \in {"read", "delete"}}
    \cup {NotFoundError(entityType, "u1", NoContext) : entityType \in {"User", "Role"}}
    \cup {ValidationError("permissionCode", "InvalidFormat", NoContext)}
    \cup {DatabaseError("Failed to find user by ID", "findById"),
          DatabaseError("Failed to list permissions", "findAll")}
    \cup {UnexpectedError(message) :
            message \in {"", "boom", "Cannot read properties of undefined"}}

\* The request as the error handler receives it: a stage forwarded the error,
\* and the handler of the route may have written its response before.
FailedRequest(error, headersSent) ==
    LET r == Forward([NewRequest(NoHeader, <<>>) EXCEPT !.handled = 1], error, "handler") IN
    IF headersSent
    THEN [r EXCEPT !.responses = 1,
                   !.response = [NoResponse EXCEPT !.sent = TRUE, !.status = 200,
                                                   !.contentType = "application/json"]]
    ELSE r

InitHandler ==
    /\ rq \in [Requests -> {FailedRequest(error, headersSent) :
                                error \in HandlerErrors, headersSent \in BOOLEAN}]
    /\ users = [u \in UserIds |-> NoUserRow]
    /\ roles = SYSTEM_ROLES
    /\ permissions = PermissionIds
    /\ writes = 0
    /\ isDevelopment \in BOOLEAN

NextHandler == \E q \in Requests : ErrorHandler(q)

SpecHandler == InitHandler /\ [][NextHandler]_vars

(***************************************************************************)
(* The global middlewares of App.setupMiddlewares.  Express runs the layers *)
(* of app.use in the order of registration; a layer that calls next(err)   *)
(* skips the remaining ones, a layer that ends the response stops the      *)
(* chain.                                                                  *)
(***************************************************************************)
GlobalStack == <<"json", "urlencoded", "cors", "requestId", "logger">>

Methods == {"GET", "POST", "OPTIONS"}
Bodies == {"none", "json", "malformedJson", "form"}
RequestIdHeaders == {Undefined, "rid-1"}
Origins == {Undefined, "https://app.example"}
RandomUUIDs == {"uuid-1", "uuid-2"}

\* A request as Express hands it to the first layer.
IncomingRequest(method, body, requestIdHeader, origin) ==
    [method |-> method, body |-> body, requestIdHeader |-> requestIdHeader,
     origin |-> origin, at |-> 1, ran |-> <<>>, id |-> Undefined,
     parsed |-> FALSE, corsHeaders |-> FALSE, responseRequestId |-> Undefined,
     logs |-> <<>>, pc |-> "global"]

\* next(): the following layer, or the routes after the last one.
NextLayer(r, name) ==
    [r EXCEPT !.ran = Append(@, name),
              !.at = @ + 1,
              !.pc = IF r.at = Len(GlobalStack) THEN "route" ELSE "global"]

\* express.json(): a body that is no JSON is forwarded as an error.
JsonHandle(r) ==
    IF r.body = "malformedJson"
    THEN [r EXCEPT !.ran = Append(@, "json"), !.pc = "error"]
    ELSE NextLayer([r EXCEPT !.parsed = (r.body = "json")], "json")

\* express.urlencoded({ extended: true })
UrlencodedHandle(r) ==
    NextLayer([r EXCEPT !.parsed = (@ \/ r.body = "form")], "urlencoded")

\* CorsMiddleware.handle: the cors package answers a preflight itself.
CorsHandle(r) ==
    LET r1 == [r EXCEPT !.corsHeaders = TRUE] IN
    IF r.method = "OPTIONS"
    THEN [r1 EXCEPT !.ran = Append(@, "cors"), !.pc = "done"]
    ELSE NextLayer(r1, "cors")

\* RequestIdMiddleware.handle
RequestIdHandle(r, uuid) ==
    LET requestId == IF Falsy(r.requestIdHeader) THEN uuid ELSE r.requestIdHeader IN
    NextLayer([r EXCEPT !.id = requestId, !.responseRequestId = requestId],
              "requestId")

\* LoggerMiddleware.handle: logs the incoming request with req.id.
LoggerHandle(r) ==
    NextLayer([r EXCEPT !.logs = Append(@, [message |-> "Incoming request",
                                            requestId |-> r.id])],
              "logger")

InitGlobal ==
    /\ rq \in [Requests -> {IncomingRequest(method, body, requestIdHeader, origin) :
                                method \in Methods, body \in Bodies,
                                requestIdHeader \in RequestIdHeaders,
                                origin \in Origins}]
    /\ users = [u \in UserIds |-> NoUserRow]
    /\ roles = SYSTEM_ROLES
    /\ permissions = PermissionIds
    /\ writes = 0
    /\ isDevelopment = FALSE

\* The layer of the stack that the request is at.
AtLayer(q, name) ==
    /\ rq[q].pc = "global"
    /\ GlobalStack[rq[q].at] = name

BodyJson(q) ==
    /\ AtLayer(q, "json")
    /\ rq' = [rq EXCEPT ![q] = JsonHandle(rq[q])]
    /\ UNCHANGED <<users, roles, permissions, writes, isDevelopment>>

BodyUrlencoded(q) ==
    /\ AtLayer(q, "urlencoded")
    /\ rq' = [rq EXCEPT ![q] = UrlencodedHandle(rq[q])]
    /\ UNCHANGED <<users, roles, permissions, writes, isDevelopment>>

Cors(q) ==
    /\ AtLayer(q, "cors")
    /\ rq' = [rq EXCEPT ![q] = CorsHandle(rq[q])]
    /\ UNCHANGED <<users, roles, permissions, writes, isDevelopment>>

RequestId(q) ==
    /\ AtLayer(q, "requestId")
    /\ \E uuid \in RandomUUIDs : rq' = [rq EXCEPT ![q] = RequestIdHandle(rq[q], uuid)]
    /\ UNCHANGED <<users, roles, permissions, writes, isDevelopment>>

Logger(q) ==
    /\ AtLayer(q, "logger")
    /\ rq' = [rq EXCEPT ![q] = LoggerHandle(rq[q])]
    /\ UNCHANGED <<users, roles, permissions, writes, isDevelopment>>

NextGlobal ==
    \/ \E q \in Requests : BodyJson(q)
    \/ \E q \in Requests : BodyUrlencoded(q)
    \/ \E q \in Requests : Cors(q)
    \/ \E q \in Requests : RequestId(q)
    \/ \E q \in Requests : Logger(q)

SpecGlobal == InitGlobal /\ [][NextGlobal]_vars

(***************************************************************************)
(* The pipeline with an observer of the tables: each request carries, in    *)
(* the field held, whether at some instant since it arrived its user was   *)
(* active and the user's role granted every required permission at once.   *)
(* The writes are those of the other clients, with the observation made in *)
(* the same step.                                                          *)
(***************************************************************************)
\* On these tables the user is active and the role grants every code.
HeldIn(us, rs, ps, u, required) ==
    /\ u \in DOMAIN us
    /\ us[u].exists /\ ~us[u].deleted /\ us[u].isActive
    /\ rs[us[u].roleId].exists
    /\ \A i \in 1..Len(required) :
          LET parsed == ParsePermissionCode(required[i]) IN
          /\ parsed.valid
          /\ \E p \in rs[us[u].roleId].permissionIds \cap ps :
                grants(PERMISSIONS(p), parsed.resource, parsed.action)

\* The request record with the observer's field.
WithHeld(r, held) ==
    [f \in DOMAIN r \cup {"held"} |-> IF f = "held" THEN held ELSE r[f]]

\* The observation of the tables us, rs, ps by every request.
Observe(us, rs, ps) ==
    [q \in Requests |->
        [rq[q] EXCEPT !.held = @ \/ HeldIn(us, rs, ps, "u1", rq[q].required)]]

\* The custom role as created, or created with *:delete alone.
SnapshotRoles ==
    {SYSTEM_ROLES, [SYSTEM_ROLES EXCEPT !["EDITOR"].permissionIds = {"pAnyDelete"}]}

InitSnapshot ==
    /\ users \in [UserIds -> UserRows]
    /\ roles \in SnapshotRoles
    /\ permissions = PermissionIds
    /\ \E required \in CodeLists :
          rq = [q \in Requests |->
                   WithHeld(NewRequest(Header(<<"Bearer", " ", "tokU1">>), required),
                            HeldIn(users, roles, permissions, "u1", required))]
    /\ writes = 0
    /\ isDevelopment = FALSE

\* UserRepositoryImpl.update by another client, observed.
ObservedUpdateUser(u, isActive, roleId) ==
    /\ CanWrite
    /\ users[u].exists
    /\ roles[roleId].exists
    /\ <<isActive, roleId>> # <<users[u].isActive, users[u].roleId>>
    /\ users' = [users EXCEPT ![u].isActive = isActive, ![u].roleId = roleId]
    /\ writes' = writes + 1
    /\ rq' = Observe(users', roles, permissions)
    /\ UNCHANGED <<roles, permissions, isDevelopment>>

\* UserRepositoryImpl.delete by another client, observed.
ObservedDeleteUser(u) ==
    /\ CanWrite
    /\ users[u].exists
    /\ ~users[u].deleted
    /\ users' = [users EXCEPT ![u].deleted = TRUE]
    /\ writes' = writes + 1
    /\ rq' = Observe(users', roles, permissions)
    /\ UNCHANGED <<roles, permissions, isDevelopment>>

\* The deletion of a custom role by another client, observed.
ObservedDeleteRole(r) ==
    /\ CanWrite
    /\ roles[r].exists
    /\ ~roles[r].isSystem
    /\ \A u \in UserIds : ~(users[u].exists /\ users[u].roleId = r)
    /\ roles' = [roles EXCEPT ![r].exists = FALSE, ![r].permissionIds = {}]
    /\ writes' = writes + 1
    /\ rq' = Observe(users, roles', permissions)
    /\ UNCHANGED <<users, permissions, isDevelopment>>

\* The deletion of a permission row by another client, observed.
ObservedDeletePermission(p) ==
    /\ CanWrite
    /\ p \in permissions
    /\ permissions' = permissions \ {p}
    /\ roles' = [r \in RoleIds |-> [roles[r] EXCEPT !.permissionIds = @ \ {p}]]
    /\ writes' = writes + 1
    /\ rq' = Observe(users, roles', permissions')
    /\ UNCHANGED <<users, isDevelopment>>

NextSnapshot ==
    \/ \E q \in Requests : Authenticate(q)
    \/ \E q \in Requests : AuthenticateUserLoaded(q)
    \/ \E q \in Requests : CheckUserLoaded(q)
    \/ \E q \in Requests : CheckRoleLoaded(q)
    \/ \E q \in Requests : CheckPermissionsLoaded(q)
    \/ \E q \in Requests : Controller(q)
    \/ \E q \in Requests : ErrorHandler(q)
    \/ \E u \in UserIds, isActive \in BOOLEAN, roleId \in RoleIds :
          ObservedUpdateUser(u, isActive, roleId)
    \/ \E u \in UserIds : ObservedDeleteUser(u)
    \/ \E r \in RoleIds : ObservedDeleteRole(r)
    \/ \E p \in PermissionIds : ObservedDeletePermission(p)

SpecSnapshot == InitSnapshot /\ [][NextSnapshot]_vars

(***************************************************************************)
(* CheckPermissionUseCase.execute on one state of the tables, while an      *)
(* administrator grants permissions to the custom role and revokes them.   *)
(***************************************************************************)
\* execute with its three lookups answered from the tables us, rs, ps.
CheckPermissionExecute(us, rs, ps, userId, resource, action) ==
    LET afterUser == ExecuteAfterUser(UserRepositoryFindById(us, userId, FALSE), userId) IN
    IF afterUser.done THEN afterUser.result
    ELSE LET afterRole == ExecuteAfterRole(
                              RoleRepositoryFindById(rs, afterUser.roleId, FALSE),
                              afterUser.roleId)
         IN  IF afterRole.done THEN afterRole.result
             ELSE ExecuteAfterPermissions(
                      PermissionRepositoryFindByIds(ps, afterRole.permissionIds, FALSE),
                      resource, action)

Resources == {"users", "roles"}
Actions == {"read", "delete"}

\* The check asked for: execute(userId, resource, action).
CheckRequest(resource, action) ==
    [NewRequest(NoHeader, <<>>) EXCEPT !.userId = "u1", !.lookupId = "u1",
                                       !.resource = resource, !.action = action]

InitGrants ==
    /\ \E resource \in Resources, action \in Actions :
          rq = [q \in Requests |-> CheckRequest(resource, action)]
    /\ users \in [UserIds -> [exists : {TRUE}, deleted : {FALSE}, isActive : {TRUE},
                              roleId : RoleIds]]
    /\ roles = [SYSTEM_ROLES EXCEPT !["EDITOR"].permissionIds = {}]
    /\ permissions = PermissionIds
    /\ writes = 0
    /\ isDevelopment = FALSE

\* A row of _RolePermissions is inserted for a custom role.
GrantPermission(r, p) ==
    /\ roles[r].exists /\ ~roles[r].isSystem
    /\ p \in permissions \ roles[r].permissionIds
    /\ roles' = [roles EXCEPT ![r].permissionIds = @ \cup {p}]
    /\ UNCHANGED <<rq, users, permissions, writes, isDevelopment>>

\* A row of _RolePermissions is deleted for a custom role.
RevokePermission(r, p) ==
    /\ roles[r].exists /\ ~roles[r].isSystem
    /\ p \in roles[r].permissionIds
    /\ roles' = [roles EXCEPT ![r].permissionIds = @ \ {p}]
    /\ UNCHANGED <<rq, users, permissions, writes, isDevelopment>>

NextGrants ==
    \/ \E r \in RoleIds, p \in PermissionIds : GrantPermission(r, p)
    \/ \E r \in RoleIds, p \in PermissionIds : RevokePermission(r, p)

SpecGrants == InitGrants /\ [][NextGrants]_vars

(***************************************************************************)
(* The middleware returned by requirePermission on its own: the route put   *)
(* it after any middleware, so req.userId is whatever the request carries. *)
(***************************************************************************)
RequestUserIds == {Undefined, "", "not-a-uuid", "u1", "u9"}

\* The request as the middleware receives it.
RouteRequest(userId, required) ==
    [NewRequest(NoHeader, required) EXCEPT !.userId = userId,
                                           !.pc = "requirePermission"]

InitRequirePermission ==
    /\ rq \in [Requests -> {RouteRequest(userId, required) :
                                userId \in RequestUserIds, required \in CodeLists}]
    /\ users \in [UserIds -> UserRows]
    /\ roles = SYSTEM_ROLES
    /\ permissions = PermissionIds
    /\ writes = MaxWrites
    /\ isDevelopment = FALSE

RequirePermission(q) ==
    /\ rq[q].pc = "requirePermission"
    /\ rq' = [rq EXCEPT ![q] = RequirePermissionEnter(rq[q])]
    /\ UNCHANGED <<users, roles, permissions, writes, isDevelopment>>

NextRequirePermission ==
    \/ \E q \in Requests : RequirePermission(q)
    \/ \E q \in Requests : CheckUserLoaded(q)
    \/ \E q \in Requests : CheckRoleLoaded(q)
    \/ \E q \in Requests : CheckPermissionsLoaded(q)
    \/ \E q \in Requests : Controller(q)
    \/ \E q \in Requests : ErrorHandler(q)

SpecRequirePermission == InitRequirePermission /\ [][NextRequirePermission]_vars

(***************************************************************************)
(* PaginationService.buildMetadata, applied to the parameters of a query    *)
(* that validateParams accepted and to the total of the table.             *)
(***************************************************************************)
MIN_LIMIT == 1
MAX_LIMIT == 100

\* Math.ceil(a / b) for a >= 0 and b > 0
Ceil(a, b) == IF a % b = 0 THEN a \div b ELSE (a \div b) + 1

\* Math.floor(a / b) for a >= 0 and b > 0
Floor(a, b) == a \div b

\* PaginationService.buildMetadata
BuildMetadata(total, limit, offset) ==
    [total |-> total, limit |-> limit, offset |-> offset,
     hasMore |-> offset + limit < total,
     currentPage |-> Floor(offset, limit) + 1,
     totalPages |-> Ceil(total, limit)]

NoMetadata ==
    [total |-> 0, limit |-> 0, offset |-> 0, hasMore |-> FALSE,
     currentPage |-> 0, totalPages |-> 0]

\* A query of a page: its parameters, the total counted, no metadata yet.
PageQuery(total, limit, offset) ==
    [total |-> total, limit |-> limit, offset |-> offset, pc |-> "query",
     pagination |-> NoMetadata]

InitPagination ==
    /\ rq \in [Requests -> {PageQuery(total, limit, offset) :
                                total \in 0..MaxTotal,
                                limit \in MIN_LIMIT..MAX_LIMIT,
                                offset \in 0..MaxOffset}]
    /\ users = [u \in UserIds |-> NoUserRow]
    /\ roles = SYSTEM_ROLES
    /\ permissions = PermissionIds
    /\ writes = 0
    /\ isDevelopment = FALSE

BuildResponse(q) ==
    /\ rq[q].pc = "query"
    /\ rq' = [rq EXCEPT ![q].pc = "built",
                        ![q].pagination =
                            BuildMetadata(rq[q].total, rq[q].limit, rq[q].offset)]
    /\ UNCHANGED <<users, roles, permissions, writes, isDevelopment>>

NextPagination == \E q \in Requests : BuildResponse(q)

SpecPagination == InitPagination /\ [][NextPagination]_vars

(***************************************************************************)
(* Properties.                                                             *)
(***************************************************************************)
Terminal(r) == r.pc \in {"error", "done"}
\* A failure was forwarded before the handler ran.
Failed(r) == r.err # NoError /\ r.errStage # "handler"
ReachedHandler(r) == r.pc = "handler" \/ r.handled > 0
AllGranted(r) ==
    /\ Len(r.outcomes) = Len(r.required)
    /\ \A i \in 1..Len(r.outcomes) : r.outcomes[i] = "Granted"
\* The step taken is a step of request q from position pc.
StepFrom(q, pc) == rq[q].pc = pc /\ rq'[q] # rq[q]
\* The outcome of the check that the step completed, "" when it completed none.
NewOutcome(q) ==
    IF Len(rq'[q].outcomes) = Len(rq[q].outcomes) + 1
    THEN rq'[q].outcomes[Len(rq'[q].outcomes)] ELSE ""
UserVisible(u) == u \in UserIds /\ users[u].exists /\ ~users[u].deleted

\* C1: the handler is invoked only if authentication succeeded and every
\* declared required permission was granted; once a failure was forwarded, no
\* later check, no lookup and no handler runs for that request.
C1_HandlerOnlyAfterAllChecks ==
    /\ [](\A q \in Requests :
            /\ ReachedHandler(rq[q]) =>
                  /\ ~Failed(rq[q])
                  /\ rq[q].userId # Undefined
                  /\ rq[q].nextCalls["authentication"] = 1
                  /\ AllGranted(rq[q])
            /\ Failed(rq[q]) => rq[q].handled = 0 /\ Terminal(rq[q]))
    /\ [][\A q \in Requests :
            Failed(rq[q]) =>
                /\ rq'[q].calls = rq[q].calls
                /\ rq'[q].outcomes = rq[q].outcomes
                /\ rq'[q].handled = 0
                /\ rq'[q].err = rq[q].err]_vars

\* C1 witness: a request with two required codes reached the handler.
C1_Witness ==
    \E q \in Requests :
        /\ rq[q].handled = 1
        /\ Len(rq[q].required) = 2
        /\ AllGranted(rq[q])

\* C2: for an active user whose role exists with a non-empty permission set,
\* the check is Granted iff some permission fetched for the role has
\* (resource equal or "*") and (action equal or "*"); a role holding *:* is
\* granted every (resource, action).
C2_GrantedIffSomePermissionMatches ==
    [][\A q \in Requests :
          (StepFrom(q, "chk_perms") /\ NewOutcome(q) \in {"Granted", "Denied"}) =>
              LET fetched == rq[q].permissionIds \cap permissions IN
              /\ NewOutcome(q) = "Granted" <=>
                    \E p \in fetched :
                        /\ PERMISSIONS(p).resource \in {rq[q].resource, "*"}
                        /\ PERMISSIONS(p).action \in {rq[q].action, "*"}
              /\ "pAll" \in fetched => NewOutcome(q) = "Granted"]_vars

\* C2 witness: the custom role (users:*, *:delete) was granted users:read and
\* users:delete, neither through an exact permission.
C2_Witness ==
    \E q \in Requests :
        /\ rq[q].handled = 1
        /\ rq[q].roleId = "EDITOR"
        /\ rq[q].required = << <<"users", ":", "read">>, <<"users", ":", "delete">> >>
        /\ rq[q].outcomes = <<"Granted", "Granted">>

\* C3: the codes are evaluated in the order supplied and evaluation stops at
\* the first code that is denied or errors: the error forwarded is that
\* code's outcome, no lookup is issued for a later code, and the request
\* proceeds only if every code was granted.
C3_FirstFailingCodeWins ==
    \A q \in Requests :
        LET r == rq[q]
            k == Len(r.outcomes)
        IN  /\ k <= Len(r.required)
            /\ \A i \in 1..(k - 1) : r.outcomes[i] = "Granted"
            /\ \A i, j \in 1..Len(r.calls) : i < j => r.calls[i].code <= r.calls[j].code
            /\ \A i \in 1..Len(r.calls) :
                  r.calls[i].code <= (IF Terminal(r) \/ ReachedHandler(r) THEN k ELSE k + 1)
            /\ (Failed(r) /\ r.errStage = "authorization") =>
                  /\ k >= 1
                  /\ r.outcomes[k] # "Granted"
                  /\ r.idx = k
                  /\ r.err.cls = (IF r.outcomes[k] = "Denied" THEN "ForbiddenError"
                                  ELSE r.outcomes[k])
            /\ ReachedHandler(r) => AllGranted(r)

\* C3 witness: the first code was granted, the second denied, and the
\* Forbidden error of the second is what was forwarded.
C3_Witness ==
    \E q \in Requests :
        /\ rq[q].pc = "done"
        /\ Len(rq[q].required) = 2
        /\ rq[q].outcomes = <<"Granted", "Denied">>
        /\ rq[q].err.cls = "ForbiddenError"
        /\ rq[q].handled = 0

\* C4: handle runs header present -> header shape -> token verification ->
\* identity parse -> user load, and forwards the failure of the first failing
\* step: a missing header is Unauthenticated(missing) with no call of the token
\* service, and the user repository is queried only after verification and
\* identity parsing both succeeded.
C4_AuthenticationStepOrder ==
    \A q \in Requests :
        LET r == rq[q]
            authCalls == SelectSeq(r.calls, LAMBDA c : c.code = 0)
            missing == ~r.header.present \/ r.header.text = <<>>
        IN  r.pc # "start" =>
            /\ missing =>
                  /\ r.err = UnauthorizedError("Token missing", NoContext)
                  /\ r.errStage = "authentication"
                  /\ r.calls = <<>>
            /\ authCalls \in {<<>>, <<Call("jwt.verify", 0)>>,
                              <<Call("jwt.verify", 0), Call("user.findById", 0)>>}
            /\ Len(authCalls) = 2 =>
                  LET decoded == jwtVerify(Concat(Split(r.header.text, " ")[2])) IN
                  /\ decoded.threw = "" /\ ~decoded.isString
                  /\ decoded.userId \in {"u1", "u2", "u9"}
                  /\ r.lookupId = decoded.userId \/ r.userId = decoded.userId
            /\ (Failed(r) /\ r.errStage = "authentication") =>
                  /\ r.err.cls \in {"UnauthorizedError", "DatabaseError"}
                  /\ r.err.reason \in {"Token missing", "Invalid authorization header"}
                        => authCalls = <<>>
                  /\ r.err.reason \in {"Invalid or expired token", "Invalid token payload"}
                        => authCalls = <<Call("jwt.verify", 0)>>
                  /\ (r.err.reason = "User inactive or not found"
                        \/ r.err.cls = "DatabaseError") => Len(authCalls) = 2

\* C4 witness: a token whose payload carries no valid identity was refused
\* after verification and before any user lookup.
C4_Witness ==
    \E q \in Requests :
        /\ rq[q].pc = "done"
        /\ rq[q].header = Header(<<"Bearer", " ", "tokBadUid">>)
        /\ rq[q].err = UnauthorizedError("Invalid token payload", NoContext)
        /\ rq[q].calls = <<Call("jwt.verify", 0)>>

\* The header is exactly the scheme token Bearer, one space and one token.
WellFormedBearer(text) ==
    /\ Len(text) = 3
    /\ text[1] = "Bearer"
    /\ text[2] = " "
    /\ text[3] # " "

\* C5: every Authorization header value that is not exactly Bearer followed
\* by one non-empty token (wrong scheme, scheme only, empty token, or further
\* space-separated parts after the token) fails authentication with
\* Unauthenticated(malformed), and the token service is not called for it.
C5_OnlyExactBearerShapeAccepted ==
    \A q \in Requests :
        LET r == rq[q] IN
        (/\ r.pc # "start"
         /\ r.header.present
         /\ r.header.text # <<>>
         /\ ~WellFormedBearer(r.header.text)) =>
            /\ r.err = UnauthorizedError("Invalid authorization header", NoContext)
            /\ r.errStage = "authentication"
            /\ \A i \in 1..Len(r.calls) : r.calls[i].op # "jwt.verify"

\* The user row that the lookup of the step reads can authenticate.
Eligible(u) == UserVisible(u) /\ users[u].isActive

\* The request made no step of authorization.
NoAuthorizationStep(r) ==
    /\ r.userId = Undefined
    /\ r.outcomes = <<>>
    /\ r.handled = 0
    /\ r.nextCalls["authorization"] = 0
    /\ \A i \in 1..Len(r.calls) : r.calls[i].code = 0

\* C6: a request bearing a valid, unexpired token authenticates only if the
\* token's user exists, is not soft-deleted and is active when looked up; for
\* a missing, soft-deleted or inactive user the lookup's answer makes
\* authentication fail with Unauthenticated(inactive-or-missing), and a request
\* whose authentication failed never reaches authorization or the handler.
C6_OnlyEligibleUserAuthenticates ==
    /\ [][\A q \in Requests :
            StepFrom(q, "auth_findById") =>
                /\ (rq'[q].userId # Undefined \/ ~Failed(rq'[q])) =>
                      Eligible(rq[q].lookupId)
                /\ ~Eligible(rq[q].lookupId) =>
                      /\ rq'[q].pc = "error"
                      /\ rq'[q].errStage = "authentication"
                      /\ rq'[q].err.cls # "DatabaseError" =>
                            rq'[q].err = UnauthorizedError("User inactive or not found",
                                                           NoContext)]_vars
    /\ [](\A q \in Requests :
            rq[q].errStage = "authentication" =>
                /\ NoAuthorizationStep(rq[q])
                /\ Terminal(rq[q]))

\* C6 witness: a valid token of a soft-deleted user was answered 401 with
\* the inactive-or-missing reason after the token service and the lookup ran.
C6_Witness ==
    \E q \in Requests :
        /\ rq[q].pc = "done"
        /\ rq[q].header = Header(<<"Bearer", " ", "tokU1">>)
        /\ users["u1"].exists /\ users["u1"].deleted /\ users["u1"].isActive
        /\ rq[q].err = UnauthorizedError("User inactive or not found", NoContext)
        /\ rq[q].calls = <<Call("jwt.verify", 0), Call("user.findById", 0)>>
        /\ rq[q].response.status = 401
        /\ NoAuthorizationStep(rq[q])

\* The check that the step completed was not cut short by a storage failure.
Answered(q) == NewOutcome(q) # "DatabaseError"

\* The user aggregate that findById returns for an inactive user of role roleId.
InactiveUserOf(u, roleId) ==
    Ok([found |-> TRUE, id |-> u, isActive |-> FALSE, deleted |-> FALSE,
        roleId |-> roleId])

\* C7: for every inactive user, execute returns Denied (success with value
\* false) for any (resource, action), whatever the role holds and even for a
\* role id that no role has: execute returns before the role lookup is issued.
C7_InactiveUserDenied ==
    /\ [](\A u \in UserIds, roleId \in RoleIds \cup {"no-such-role"} :
            LET step == ExecuteAfterUser(InactiveUserOf(u, roleId), u) IN
            step.done /\ step.result = Ok(FALSE))
    /\ [][\A q \in Requests :
            (/\ StepFrom(q, "chk_user")
             /\ UserVisible(rq[q].lookupId)
             /\ ~users[rq[q].lookupId].isActive
             /\ Answered(q)) =>
                /\ NewOutcome(q) = "Denied"
                /\ rq'[q].calls = rq[q].calls
                /\ rq'[q].err.cls = "ForbiddenError"
                /\ rq'[q].handled = 0]_vars

\* C7 witness: a user of the role holding *:* was deactivated after
\* authenticating and was denied without a role lookup.
C7_Witness ==
    \E q \in Requests :
        /\ rq[q].pc = "done"
        /\ rq[q].outcomes = <<"Denied">>
        /\ UserVisible("u1") /\ ~users["u1"].isActive
        /\ users["u1"].roleId = "ADMIN"
        /\ rq[q].calls = <<Call("jwt.verify", 0), Call("user.findById", 0),
                           Call("user.findById", 1)>>
        /\ rq[q].response.status = 403

\* C8: for an active user whose role has an empty permission set, execute
\* returns Denied for any (resource, action) without issuing the batch
\* permission lookup; and when the permission store holds none of the ids the
\* role referenced, the batch lookup's answer yields the same Denied.
C8_EmptyPermissionSetDenied ==
    [][\A q \in Requests :
          /\ (/\ StepFrom(q, "chk_role")
              /\ roles[rq[q].roleId].exists
              /\ roles[rq[q].roleId].permissionIds = {}
              /\ Answered(q)) =>
                 /\ NewOutcome(q) = "Denied"
                 /\ rq'[q].calls = rq[q].calls
                 /\ rq'[q].err.cls = "ForbiddenError"
          /\ (/\ StepFrom(q, "chk_perms")
              /\ rq[q].permissionIds \cap permissions = {}
              /\ Answered(q)) =>
                 /\ NewOutcome(q) = "Denied"
                 /\ rq'[q].err.cls = "ForbiddenError"]_vars

\* C8 witness: an active user of the role without permissions was denied
\* after the role lookup, no batch permission lookup having been issued.
C8_Witness ==
    \E q \in Requests :
        /\ rq[q].pc = "done"
        /\ rq[q].outcomes = <<"Denied">>
        /\ UserVisible("u1") /\ users["u1"].isActive
        /\ rq[q].roleId = "GUEST"
        /\ roles["GUEST"].permissionIds = {}
        /\ rq[q].calls = <<Call("jwt.verify", 0), Call("user.findById", 0),
                           Call("user.findById", 1), Call("role.findById", 1)>>

\* C9: when the user lookup returns absent execute fails with NotFound(User),
\* and when the user is active but the role lookup returns absent it fails with
\* NotFound(Role); in neither case is the result Granted or Denied.
C9_AbsentUserOrRoleIsNotFound ==
    [][\A q \in Requests :
          /\ (/\ StepFrom(q, "chk_user")
              /\ ~UserVisible(rq[q].lookupId)
              /\ Answered(q)) =>
                 /\ NewOutcome(q) = "NotFoundError"
                 /\ rq'[q].err.cls = "NotFoundError"
                 /\ rq'[q].err.entityType = "User"
                 /\ rq'[q].err.entityId = rq[q].lookupId
          /\ (/\ StepFrom(q, "chk_role")
              /\ ~roles[rq[q].roleId].exists
              /\ Answered(q)) =>
                 /\ NewOutcome(q) = "NotFoundError"
                 /\ rq'[q].err.cls = "NotFoundError"
                 /\ rq'[q].err.entityType = "Role"
                 /\ rq'[q].err.entityId = rq[q].roleId]_vars

\* C9 witness: the role read from the user row was deleted before the role
\* lookup, which returned absent, and NotFound(Role) was forwarded.
C9_Witness ==
    \E q \in Requests :
        /\ rq[q].pc = "error"
        /\ rq[q].outcomes = <<"NotFoundError">>
        /\ rq[q].err.entityType = "Role"
        /\ rq[q].err.entityId = "EDITOR"
        /\ ~roles["EDITOR"].exists
        /\ rq[q].handled = 0

\* C10: when a Role or User referenced by an authenticated request has
\* vanished by the time of the authorization check, the response carries a
\* server-side status (5xx), not a client-error status (4xx).
C10_VanishedReferenceIsServerFault ==
    \A q \in Requests :
        (/\ rq[q].response.sent
         /\ rq[q].errStage = "authorization"
         /\ rq[q].err.cls = "NotFoundError") =>
            /\ rq[q].response.status >= 500
            /\ rq[q].response.status <= 599

\* The code is exactly two non-empty tokens separated by one colon.
WellFormedCode(code) ==
    /\ Len(code) = 3
    /\ code[1] # ":"
    /\ code[2] = ":"
    /\ code[3] # ":"

\* C11: every required permission code that is not exactly two non-empty
\* colon-separated tokens (no colon, empty resource, empty action, more than
\* two tokens) fails the check with a validation error, not a denial, and no
\* lookup is issued for that code.
C11_OnlyTwoTokenCodesChecked ==
    \A q \in Requests :
        LET r == rq[q] IN
        \A i \in 1..Len(r.required) :
            ~WellFormedCode(r.required[i]) =>
                /\ \A k \in 1..Len(r.calls) : r.calls[k].code # i
                /\ i <= Len(r.outcomes) => r.outcomes[i] = "ValidationError"
                /\ (r.idx = i /\ r.pc # "start") =>
                      /\ r.err.cls = "ValidationError"
                      /\ r.err.context.permissionCode = Concat(r.required[i])

\* The one payload of a token-verification failure: nothing of its cause.
VerificationFailurePayload ==
    [sent |-> TRUE, status |-> 401, contentType |-> "application/problem+json",
     type |-> "https://api.example.com/problems/unauthorized",
     title |-> "Unauthorized",
     detail |-> "Authentication failed: Invalid or expired token",
     extensions |-> [NoExtensions EXCEPT !.reason = "Invalid or expired token"]]

\* The token service refused the token of the request.
VerificationFailed(r) ==
    /\ r.response.sent
    /\ r.errStage = "authentication"
    /\ r.err.reason = "Invalid or expired token"

\* C12 as claimed: for any token-verification failure the external payload is
\* the same whatever the cause and holds no detail of the internal error, in
\* every configuration of the error mapper.
C12_SamePayloadInEveryConfiguration ==
    \A q \in Requests :
        VerificationFailed(rq[q]) => rq[q].response = VerificationFailurePayload

\* C12 as amended: with includeContext false (any configuration but
\* development) the payload of a token-verification failure is the same
\* whatever the cause and holds no detail of the internal error.
C12_SamePayloadOutsideDevelopment ==
    \A q \in Requests :
        (VerificationFailed(rq[q]) /\ ~isDevelopment) =>
            rq[q].response = VerificationFailurePayload

\* C12 witness: outside development, an expired token was answered with the
\* one payload although its error carries the cause.
C12_Witness ==
    \E q \in Requests :
        /\ ~isDevelopment
        /\ rq[q].header = Header(<<"Bearer", " ", "tokExpired">>)
        /\ rq[q].err.context.cause = "TokenExpiredError"
        /\ rq[q].response = VerificationFailurePayload

\* The last lookup that the request issued.
LastCall(r) == r.calls[Len(r.calls)]

\* C13: when a persistence lookup (user, role, permissions) issued during
\* authentication or authorization fails, that failure is the outcome: the
\* error forwarded is the lookup's own, the check is neither Granted nor
\* Denied, nothing runs after it; and no lookup is issued twice for the same
\* authenticate or authorize call.
C13_LookupFailurePropagated ==
    /\ [](\A q \in Requests :
            LET r == rq[q] IN
            /\ r.lookupFailed =>
                  /\ Terminal(r)
                  /\ r.handled = 0
                  /\ r.err.cls = "DatabaseError"
                  /\ r.err.context.operation =
                        (IF LastCall(r).op = "permission.findByIds" THEN "findByIds"
                         ELSE "findById")
                  /\ r.errStage = (IF LastCall(r).code = 0 THEN "authentication"
                                   ELSE "authorization")
                  /\ LastCall(r).code > 0 =>
                        /\ Len(r.outcomes) = LastCall(r).code
                        /\ r.outcomes[Len(r.outcomes)] = "DatabaseError"
                  /\ LastCall(r).code = 0 => r.userId = Undefined
            /\ \A i, j \in 1..Len(r.calls) : r.calls[i] = r.calls[j] => i = j)
    /\ [][\A q \in Requests :
            rq[q].lookupFailed =>
                /\ rq'[q].calls = rq[q].calls
                /\ rq'[q].err = rq[q].err
                /\ rq'[q].outcomes = rq[q].outcomes]_vars

\* C13 witness: the batch permission lookup of the second code failed after
\* the first code was granted, and the answer is the lookup's failure.
C13_Witness ==
    \E q \in Requests :
        /\ rq[q].lookupFailed
        /\ rq[q].outcomes = <<"Granted", "DatabaseError">>
        /\ LastCall(rq[q]) = Call("permission.findByIds", 2)
        /\ rq[q].response.status = 500
        /\ rq[q].response.type = "https://api.example.com/problems/database-error"

\* The i-th and the j-th code of the request ask for the same resource and action.
SameCheck(r, i, j) ==
    LET a == Split(r.required[i], ":")
        b == Split(r.required[j], ":")
    IN  At(a, 1) = At(b, 1) /\ At(a, 2) = At(b, 2)

AloneSuccessors(r) ==
    CASE r.pc = "start" -> {AuthenticationBegin(r)}
      [] r.pc = "auth_findById" ->
            {AuthenticationAfterUser(Returned(r, f),
                 UserRepositoryFindById(users, r.lookupId, f)) : f \in BOOLEAN}
      [] r.pc = "chk_user" ->
            {LET x == Returned(r, f)
                 step == ExecuteAfterUser(UserRepositoryFindById(users, r.lookupId, f),
                                          r.lookupId)
             IN  IF step.done THEN AfterCheck(x, step.result)
                 ELSE [x EXCEPT !.pc = "chk_role", !.roleId = step.roleId,
                                !.calls = Append(@, Call("role.findById", r.idx))]
             : f \in BOOLEAN}
      [] r.pc = "chk_role" ->
            {LET x == Returned(r, f)
                 step == ExecuteAfterRole(RoleRepositoryFindById(roles, r.roleId, f),
                                          r.roleId)
             IN  IF step.done THEN AfterCheck(x, step.result)
                 ELSE [x EXCEPT !.pc = "chk_perms",
                                !.permissionIds = step.permissionIds,
                                !.calls = Append(@, Call("permission.findByIds", r.idx))]
             : f \in BOOLEAN}
      [] r.pc = "chk_perms" ->
            {AfterCheck(Returned(r, f),
                 ExecuteAfterPermissions(
                     PermissionRepositoryFindByIds(permissions, r.permissionIds, f),
                     r.resource, r.action)) : f \in BOOLEAN}
      [] r.pc = "handler" ->
            {ControllerHandle(r, result) :
                result \in {Ok("page"), Fail(DatabaseError("Failed to list permissions",
                                                           "findAll"))}}
      [] r.pc = "error" -> {ErrorHandlerHandle(r, isDevelopment)}
      [] OTHER -> {}

\* The final states of request r when it runs alone.
RECURSIVE AloneOutcomes(_)
AloneOutcomes(r) ==
    IF r.pc = "done" THEN {r}
    ELSE UNION {AloneOutcomes(x) : x \in AloneSuccessors(r)}

\* The identity embedded in the token of the request's header.
TokenIdentity(r) == jwtVerify(Concat(Split(r.header.text, " ")[2])).userId

\* C15: for any interleaving of concurrent requests over unchanged user, role
\* and permission data, each request ends as it can end when run alone, and
\* its authorization checks are evaluated for the identity that its own
\* authentication attached, the one of its own token.
C15_RequestsIndependent ==
    \A q \in DOMAIN rq :
        LET r == rq[q] IN
        /\ r.pc = "done" => r \in AloneOutcomes(NewRequest(r.header, r.required))
        /\ r.userId # Undefined => r.userId = TokenIdentity(r)
        /\ r.pc \in {"chk_user", "chk_role", "chk_perms"} =>
              /\ r.lookupId = r.userId
              /\ r.lookupId = TokenIdentity(r)
        /\ r.pc \in {"chk_role", "chk_perms"} => r.roleId = users[r.userId].roleId

\* C15 witness: two requests of two users requiring the same code ran
\* interleaved; the administrator's was handled and the guest's was denied.
C15_Witness ==
    /\ DOMAIN rq = {"q1", "q2"}
    /\ rq["q1"].userId = "u1" /\ rq["q2"].userId = "u2"
    /\ rq["q1"].required = rq["q2"].required
    /\ rq["q1"].pc = "chk_perms"
    /\ rq["q2"].pc = "done"
    /\ rq["q2"].response.status = 403
    /\ users["u1"].roleId = "ADMIN"

\* The (status, problem type) pair that each failure kind is answered with.
ProblemOf(cls) ==
    CASE cls = "UnauthorizedError" -> <<401, "https://api.example.com/problems/unauthorized">>
      [] cls = "ForbiddenError"    -> <<403, "https://api.example.com/problems/forbidden">>
      [] cls = "NotFoundError"     -> <<404, "https://api.example.com/problems/not-found">>
      [] cls = "ValidationError"   -> <<400, "https://api.example.com/problems/validation-error">>
      [] cls = "DatabaseError"     -> <<500, "https://api.example.com/problems/database-error">>

\* The error handler answered the failure of request r.
KindAnswered(r) == r.response.sent /\ r.err # NoError

Rank(pc) ==
    CASE pc = "start" -> 0
      [] pc = "auth_findById" -> 1
      [] pc \in {"chk_user", "chk_role", "chk_perms"} -> 2
      [] pc = "handler" -> 3
      [] pc = "error" -> 4
      [] pc = "done" -> 5

\* C17: every request entering the protected pipeline, its collaborators
\* returning, eventually reaches one terminal outcome: the handler was invoked
\* once, or one error was forwarded and turned into one response; no stage
\* calls next more than once and no stage is entered again.
C17_ExactlyOneTerminalOutcome ==
    /\ \A q \in Requests : <>(rq[q].pc = "done")
    /\ [](\A q \in Requests :
            LET r == rq[q] IN
            /\ r.nextCalls["authentication"] <= 1
            /\ r.nextCalls["authorization"] <= 1
            /\ r.nextCalls["handler"] <= 1
            /\ r.nextCalls["errorHandler"] = 0
            /\ r.handled <= 1
            /\ r.responses <= 1
            /\ r.pc = "done" =>
                  /\ r.responses = 1
                  /\ r.response.sent
                  /\ r.handled = 1 \/ r.err # NoError
                  /\ Failed(r) => r.handled = 0
                  /\ r.err = NoError => r.response.status = 200
                  /\ r.err # NoError =>
                        r.response.contentType = "application/problem+json")
    /\ [][\A q \in Requests :
            /\ Rank(rq'[q].pc) >= Rank(rq[q].pc)
            /\ (rq'[q].pc = rq[q].pc /\ rq'[q] # rq[q]) =>
                  (rq[q].pc = "chk_user" /\ rq'[q].idx = rq[q].idx + 1)
            /\ rq[q].pc = "done" => rq'[q] = rq[q]]_vars

\* C17 witness: a request whose second code was denied ended with one
\* forwarded error, one response and no handler call.
C17_Witness ==
    \E q \in Requests :
        /\ rq[q].pc = "done"
        /\ rq[q].outcomes = <<"Granted", "Denied">>
        /\ rq[q].nextCalls = [authentication |-> 1, authorization |-> 1,
                              handler |-> 0, errorHandler |-> 0]
        /\ rq[q].responses = 1
        /\ rq[q].handled = 0
        /\ rq[q].response.status = 403

\* C18: handle sets req.userId only on its success path, to the identity in
\* the verified token, which is the id of the loaded user; on every failure
\* path req.userId stays unset.
C18_UserIdSetOnlyOnSuccess ==
    /\ [](\A q \in Requests :
            /\ rq[q].errStage = "authentication" => rq[q].userId = Undefined
            /\ rq[q].pc \in {"start", "auth_findById"} => rq[q].userId = Undefined
            /\ rq[q].userId # Undefined =>
                  /\ rq[q].header.present
                  /\ rq[q].userId = TokenIdentity(rq[q])
                  /\ rq[q].userId \in UserIds)
    /\ [][\A q \in Requests :
            rq'[q].userId # rq[q].userId =>
                /\ rq[q].userId = Undefined
                /\ rq[q].pc = "auth_findById"
                /\ rq'[q].userId = rq[q].lookupId
                /\ rq'[q].nextCalls["authentication"] = 1
                /\ rq'[q].errStage # "authentication"
                /\ Eligible(rq[q].lookupId)]_vars

\* C18 witness: a request passed authentication with the identity of its
\* token attached and reached the handler.
C18_Witness ==
    \E q \in Requests :
        /\ rq[q].pc = "done"
        /\ rq[q].userId = "u1"
        /\ rq[q].handled = 1

\* No read of the table returns, counts or reports the user of the id.
ExcludedFromReads(table, id) ==
    /\ UserRepositoryFindById(table, id, FALSE) = Ok(NoUser)
    /\ UserRepositoryExistsById(table, id) = Ok(FALSE)
    /\ \A email \in Emails : UserRepositoryFindByEmail(table, email).value.id # id
    /\ UserRepositoryExistsByEmail(table, table[id].email) = Ok(FALSE)
    /\ \A limit \in Limits, offset \in Offsets :
          \A page \in UserRepositoryFindAll(table, limit, offset) :
              \A k \in DOMAIN page : page[k] # id
    /\ UserRepositoryCount(table) =
          UserRepositoryCount([table EXCEPT ![id] = NoRepoRow])

\* C19: once delete(id) has succeeded the user is excluded from findById,
\* findByEmail, findAll, existsById, existsByEmail and count in every later
\* state, whatever repository operations follow, update and a repeated delete
\* among them; no operation makes a soft-deleted user visible again.
C19_DeletedUserStaysExcluded ==
    /\ [](\A id \in RepoIds :
            (users[id].exists /\ users[id].deleted) => ExcludedFromReads(users, id))
    /\ [][\A id \in RepoIds :
            /\ (users[id].exists /\ users[id].deleted) =>
                  (users'[id].exists /\ users'[id].deleted)
            /\ (/\ UserRepositoryDelete(users, id).result = Ok(TRUE)
                /\ users' = UserRepositoryDelete(users, id).table) =>
                  ExcludedFromReads(users', id)]_vars

\* C19 witness: u1 is soft-deleted, saved after u2 and active under the email
\* b@x, while u2 is visible, and count answers 1.
C19_Witness ==
    /\ users["u1"].exists /\ users["u1"].deleted
    /\ users["u1"].isActive /\ users["u1"].email = "b@x"
    /\ users["u1"].createdAt = 2
    /\ users["u2"].exists /\ ~users["u2"].deleted /\ users["u2"].createdAt = 1
    /\ UserRepositoryCount(users) = Ok(1)

\* C20: handle converts every error it receives while the headers are not
\* sent into one Problem Details response (status and Content-Type
\* application/problem+json set, body sent), errors of an empty message and
\* errors that are no BaseError in development among them; when the headers
\* were sent it writes nothing and delegates to next(error).
C20_EveryErrorBecomesProblemDetails ==
    [][\A q \in Requests :
          (rq[q].pc = "error" /\ rq'[q].pc = "done") =>
              IF rq[q].response.sent
              THEN /\ rq'[q].response = rq[q].response
                   /\ rq'[q].responses = rq[q].responses
                   /\ rq'[q].nextCalls["errorHandler"] = 1
              ELSE /\ rq'[q].responses = rq[q].responses + 1
                   /\ rq'[q].nextCalls["errorHandler"] = 0
                   /\ rq'[q].response.sent
                   /\ rq'[q].response.contentType = "application/problem+json"
                   /\ rq'[q].response.status =
                         (IF IsBaseError(rq[q].err) THEN rq[q].err.httpStatus
                          ELSE InfrastructureHttpStatus)
                   /\ ~Falsy(rq'[q].response.type)
                   /\ ~Falsy(rq'[q].response.title)
                   /\ ~Falsy(rq'[q].response.detail)]_vars

\* Contexts an error can carry.
SensitiveContexts ==
    {NoContext,
     [NoContext EXCEPT !.userId = "u1", !.operation = "authorize"],
     [NoContext EXCEPT !.cause = "TokenExpiredError"],
     [NoContext EXCEPT !.userId = "u2", !.aggregateType = "User",
                       !.aggregateId = "u2", !.operation = "findById",
                       !.cause = "PrismaClientError", !.permissionCode = "users:read"]}

\* Messages of errors that are no BaseError.
SensitiveMessages == {"", "boom", "password=hunter2", "Cannot read properties of undefined"}

\* The response handle writes for the error when the headers were not sent.
ResponseFor(error, isDev) == ErrorHandlerHandle(FailedRequest(error, FALSE), isDev).response

\* C21: with includeContext false the Problem Details body does not depend on
\* sensitive inputs: for an error that is no BaseError it is the one generic
\* 500 body whatever the message and stack, and for a BaseError it holds none
\* of error.context and is the same whatever the context.
C21_BodyIndependentOfSensitiveInputs ==
    \A q \in Requests :
        (/\ rq[q].pc = "done"
         /\ ~isDevelopment
         /\ rq[q].nextCalls["errorHandler"] = 0) =>
            LET err == rq[q].err
                body == rq[q].response
            IN  /\ body.contentType = "application/problem+json"
                /\ body.extensions.userId = ""
                /\ body.extensions.metadata = NoExtensions.metadata
                /\ body.extensions.aggregateId = ""
                /\ body.extensions.aggregateType = ""
                /\ body.extensions.operation = ""
                /\ body.extensions.stack = ""
                /\ IsBaseError(err) =>
                      \A context \in SensitiveContexts :
                          ResponseFor([err EXCEPT !.context = context], FALSE) = body
                /\ ~IsBaseError(err) =>
                      /\ body.status = InfrastructureHttpStatus
                      /\ body.detail = "An unexpected error occurred. Please try again later."
                      /\ \A message \in SensitiveMessages :
                            ResponseFor(UnexpectedError(message), FALSE) = body

\* C21 witness: outside development a ForbiddenError whose context names the
\* user was answered with a body that does not.
C21_Witness ==
    \E q \in Requests :
        /\ rq[q].pc = "done"
        /\ ~isDevelopment
        /\ rq[q].err.cls = "ForbiddenError"
        /\ rq[q].err.context.userId = "u1"
        /\ rq[q].response.status = ForbiddenHttpStatus
        /\ rq[q].response.extensions.userId = ""

\* The order the documentation of setupMiddlewares states.
DocumentedOrder == <<"cors", "requestId", "logger", "json", "urlencoded">>

\* C22: the global middlewares process each request in the order CORS,
\* request-id, logger, body parsing: the CORS middleware runs before any
\* other global middleware, and req.id is set whenever LoggerMiddleware logs.
C22_CorsRequestIdLoggerBodyParsing ==
    \A q \in Requests :
        LET r == rq[q] IN
        /\ Len(r.ran) <= Len(DocumentedOrder)
        /\ r.ran = SubSeq(DocumentedOrder, 1, Len(r.ran))
        /\ \A k \in DOMAIN r.logs : r.logs[k].requestId # Undefined

\* C23: when the user was soft-deleted or deactivated after authentication
\* succeeded for the request and before an authorization check of the request
\* reads the user, that check ends in NotFound(User) for the soft-deleted and
\* in Denied for the deactivated user, and the handler is not invoked for the
\* request.
C23_RevokedUserNeverReachesHandler ==
    /\ [][\A q \in Requests :
            (/\ StepFrom(q, "chk_user")
             /\ rq[q].userId # Undefined
             /\ ~Eligible(rq[q].lookupId)
             /\ Answered(q)) =>
                /\ NewOutcome(q) = (IF UserVisible(rq[q].lookupId) THEN "Denied"
                                    ELSE "NotFoundError")
                /\ rq'[q].pc = "error"
                /\ rq'[q].errStage = "authorization"
                /\ rq'[q].err.cls = (IF UserVisible(rq[q].lookupId) THEN "ForbiddenError"
                                     ELSE "NotFoundError")
                /\ ~UserVisible(rq[q].lookupId) =>
                      rq'[q].err.entityType = "User" /\ rq'[q].err.entityId = rq[q].userId
                /\ rq'[q].handled = 0]_vars
    /\ [](\A q \in Requests :
            (/\ rq[q].outcomes # <<>>
             /\ rq[q].outcomes[Len(rq[q].outcomes)] \in {"NotFoundError", "Denied"}) =>
                /\ rq[q].handled = 0
                /\ rq[q].pc \in {"error", "done"})

\* C23 witness: the user was soft-deleted after the first check of the request
\* was granted; the second check ended in NotFound(User), answered 404, and
\* the handler did not run.
C23_Witness ==
    \E q \in Requests :
        /\ rq[q].pc = "done"
        /\ rq[q].userId = "u1"
        /\ users["u1"].deleted
        /\ rq[q].outcomes = <<"Granted", "NotFoundError">>
        /\ rq[q].err.entityType = "User"
        /\ rq[q].response.status = NotFoundHttpStatus
        /\ rq[q].handled = 0

\* C24: whenever a request requiring p1..pn reaches the handler, there was
\* one instant during the request at which the user was active and the user's
\* role granted every one of p1..pn, whatever other clients wrote meanwhile.
C24_HandlerImpliesOneInstant ==
    \A q \in Requests : ReachedHandler(rq[q]) => rq[q].held

\* The result of execute for the check of request q on the current tables.
ExecuteNow(q) ==
    CheckPermissionExecute(users, roles, permissions, rq[q].userId,
                           rq[q].resource, rq[q].action)

\* C25: authorization is monotone in the role's permission set: for a fixed
\* active user and existing role, adding a permission to the role never turns
\* a result of execute from Granted to Denied, and removing one never turns it
\* from Denied to Granted, for any (resource, action).
C25_MonotoneInPermissionSet ==
    [][\A q \in Requests, r \in RoleIds :
          /\ (/\ roles[r].permissionIds \subseteq roles'[r].permissionIds
              /\ roles[r].permissionIds # roles'[r].permissionIds
              /\ ExecuteNow(q) = Ok(TRUE)) => ExecuteNow(q)' = Ok(TRUE)
          /\ (/\ roles'[r].permissionIds \subseteq roles[r].permissionIds
              /\ roles[r].permissionIds # roles'[r].permissionIds
              /\ ExecuteNow(q) = Ok(FALSE)) => ExecuteNow(q)' = Ok(FALSE)]_vars

\* C25 witness: the user's role holds users:read and *:delete after two
\* grants, and the check of (users, delete) is Granted.
C25_Witness ==
    \E q \in Requests :
        /\ users["u1"].roleId = "EDITOR"
        /\ roles["EDITOR"].permissionIds = {"pUsersRead", "pAnyDelete"}
        /\ rq[q].resource = "users" /\ rq[q].action = "delete"
        /\ ExecuteNow(q) = Ok(TRUE)

\* The request carries no identity that parses as a user id.
NoIdentity(r) == Falsy(r.userId) \/ ~UserIdFromString(r.userId).isSuccess

\* C26: the middleware returned by requirePermission issues no lookup and
\* never lets the request proceed when the request carries no authenticated
\* identity: with req.userId absent or not parseable as a user id it forwards
\* an Unauthenticated (401) error before evaluating any permission code.
C26_NoIdentityNoCheck ==
    /\ [][\A q \in Requests :
            (StepFrom(q, "requirePermission") /\ NoIdentity(rq[q])) =>
                /\ rq'[q].pc = "error"
                /\ rq'[q].err.cls = "UnauthorizedError"
                /\ rq'[q].err.httpStatus = UnauthorizedHttpStatus
                /\ rq'[q].errStage = "authorization"
                /\ rq'[q].calls = <<>>
                /\ rq'[q].outcomes = <<>>
                /\ rq'[q].idx = 0]_vars
    /\ [](\A q \in Requests :
            NoIdentity(rq[q]) =>
                /\ rq[q].calls = <<>>
                /\ rq[q].outcomes = <<>>
                /\ rq[q].handled = 0
                /\ rq[q].pc # "handler"
                /\ rq[q].response.sent => rq[q].response.status = UnauthorizedHttpStatus)

\* C26 witness: a request whose req.userId is no user id, on a route that
\* requires users:read, was answered 401 with no lookup made.
C26_Witness ==
    \E q \in Requests :
        /\ rq[q].userId = "not-a-uuid"
        /\ rq[q].required = <<<<"users", ":", "read">>>>
        /\ rq[q].pc = "done"
        /\ rq[q].err.reason = "Invalid user context"
        /\ rq[q].response.status = UnauthorizedHttpStatus
        /\ rq[q].calls = <<>>

\* C27: with an empty list of required permissions requirePermission lets
\* every request that carries a valid authenticated identity proceed to the
\* handler without consulting the user, role or permission stores, whatever
\* the user's role and row.
C27_NothingRequiredProceeds ==
    /\ [][\A q \in Requests :
            (/\ StepFrom(q, "requirePermission")
             /\ ~NoIdentity(rq[q])
             /\ rq[q].required = <<>>) =>
                /\ rq'[q].pc = "handler"
                /\ rq'[q].nextCalls["authorization"] = 1
                /\ rq'[q].err = NoError
                /\ rq'[q].calls = <<>>
                /\ rq'[q].outcomes = <<>>]_vars
    /\ [](\A q \in Requests :
            (~NoIdentity(rq[q]) /\ rq[q].required = <<>>) =>
                /\ rq[q].calls = <<>>
                /\ ~Failed(rq[q])
                /\ rq[q].pc = "done" => rq[q].handled = 1)

\* C27 witness: a user of the role without permissions reached the handler
\* of a route that requires nothing, and no store was consulted.
C27_Witness ==
    \E q \in Requests :
        /\ rq[q].userId = "u1"
        /\ rq[q].required = <<>>
        /\ UserVisible("u1") /\ users["u1"].isActive /\ users["u1"].roleId = "GUEST"
        /\ rq[q].pc = "done"
        /\ rq[q].handled = 1
        /\ rq[q].response.status = 200
        /\ rq[q].calls = <<>>

\* C28: when existsByEmail(e) answers false and no other write intervenes,
\* saving a new user with the email e does not fail on the uniqueness of the
\* email: the existence check and the unique index on users.email agree on
\* the emails that are taken, also after users were soft-deleted.
C28_ExistsByEmailAgreesWithUniqueIndex ==
    \A user \in UserEntities :
        (/\ ~users[user.id].exists
         /\ UserRepositoryExistsByEmail(users, user.email) = Ok(FALSE)) =>
            /\ ~EmailTaken(users, user.id, user.email)
            /\ UserRepositorySave(users, user).result.isSuccess

\* C29: for every limit in 1..100, offset >= 0 and total > offset,
\* buildMetadata returns 1 <= currentPage <= totalPages, and hasMore is false
\* exactly when currentPage = totalPages.
C29_HasMoreMarksNonLastPages ==
    \A q \in Requests :
        (rq[q].pc = "built" /\ rq[q].total > rq[q].offset) =>
            LET m == rq[q].pagination IN
            /\ 1 <= m.currentPage
            /\ m.currentPage <= m.totalPages
            /\ ~m.hasMore <=> (m.currentPage = m.totalPages)

====
